---- MODULE Spec2Model ----
(***************************************************************************)
(* A model of FResp: the frequency-response sweep session (FreqResp), the  *)
(* auto-ranging controller (MeasureAndScaleInput) and the oscilloscope's   *)
(* vertical-scale adjustment (Oscilloscope::AdjustChannelVolts).           *)
(*                                                                         *)
(* Numbers.  The program computes in IEEE doubles.  A double is modelled   *)
(* as a record [k, v]: k is "fin" (the value is the integer v), "nan",     *)
(* "pinf" or "ninf".  Voltages are integers in units of 0.5 mV (the        *)
(* smallest table entry, 500 uV, is 1), frequencies in units of 0.01 Hz.   *)
(*                                                                         *)
(* Control.  The program is single-threaded.  A call of Init, MeasureNext  *)
(* or Sweep that reaches MeasureFreq enters the convergence loop           *)
(* (pc = "loop"); every round of the do-while loop is one step, and the   *)
(* round that leaves the loop also runs the rest of the caller.            *)
(* While pc = "loop" no other call can start.                              *)
(***************************************************************************)
EXTENDS Integers, Sequences, FiniteSets, TLC

VARIABLES
    \* ---- FreqResp (src/FResp/FreqResp.h:121-154)
    initialized, completed, data,
    freq, stim, input, output, trig, meas,
    f, osChannelInput, osChannelOutput, avMeasure,
    osScaleInput, osScaleOutput,
    \* ---- the two instruments
    stimAttached,      \* stimulus.bAttached
    oscAttached,       \* oscope.bAttached
    scope,             \* the oscilloscope's channels: live V/div and attenuation
    sig,               \* the readings the oscilloscope returns for the signal
    \* ---- the call in progress
    pc, caller, adjust_in, adjust_out, alternate_count, rounds,
    \* ---- what the caller of the last call saw
    lastOp, lastRet, ioSent, attachTried, result,
    delayReads,        \* MeasureDelay calls of the last MeasureFreq
    \* ---- a direct call of Oscilloscope::AdjustChannelVolts
    adjCall,
    \* ---- a direct call of Oscilloscope::SetTimebase
    tbCall,
    \* ---- a direct call of another instrument function: its arguments, the
    \* ---- commands it sent and what it returned
    ioCall,
    \* ---- the socket library and the instrument objects: the statics
    \* ---- bSocketsInitialized and nInstrAttached, the objects alive, their
    \* ---- bAttached flags, and the last call on an object
    sock

sessVars  == <<initialized, completed, data, freq, stim, input, output, trig, meas,
               f, osChannelInput, osChannelOutput, avMeasure,
               osScaleInput, osScaleOutput>>
instrVars == <<stimAttached, oscAttached, scope, sig>>
loopVars  == <<pc, caller, adjust_in, adjust_out, alternate_count, rounds>>
obsVars   == <<lastOp, lastRet, ioSent, attachTried, result, delayReads>>
vars      == <<sessVars, instrVars, loopVars, obsVars, adjCall, tbCall, ioCall, sock>>

(***************************************************************************)
(* Bounds of the model.                                                    *)
(***************************************************************************)
MaxData      == 4    \* samples kept in data
MaxRounds    == 16   \* the round counter saturates here

(***************************************************************************)
(* Program constants.                                                      *)
(***************************************************************************)
FRRET_SUCCESS             == 0
FRRET_COMPLETE            == 1
FRRET_NOT_INITIALIZED     == -1
FRRET_ALREADY_INITIALIZED == -2
FRRET_INVALID_FREQUENCY   == -3
FRRET_INVALID_STIM        == -4
FRRET_INVALID_TRIG        == -5
FRRET_INIT_OSCILLOSCOPE   == -10
\* no FRRET value: the call was left by an exception
RAISED                    == -100
FRRET_INIT_SINEGEN        == -11

N_VOLTAGE_PAIRS   == 14
nVoltageDivisions == 8
HUNT_LIMIT        == 3
ADJ_LIMIT         == 3

\* SEEK_MAX - SEEK_MARGIN = 0.9725, SEEK_MIN - SEEK_MARGIN = 0.1725 and
\* SEEK_MID - SEEK_MARGIN = 0.3625, as fractions over SEEK_DEN.
SEEK_DEN == 400
SEEK_HI  == 389
SEEK_LO  == 69
SEEK_MD  == 145

\* FREQ_FUDGE = 1.001 = FUDGE_NUM / FUDGE_DEN
FUDGE_NUM == 1001
FUDGE_DEN == 1000

(***************************************************************************)
(* Doubles.                                                                *)
(***************************************************************************)
Fin(n) == [k |-> "fin", v |-> n]
NaN    == [k |-> "nan", v |-> 0]
PInf   == [k |-> "pinf", v |-> 0]
NInf   == [k |-> "ninf", v |-> 0]

isnan(x)    == x.k = "nan"
isfinite(x) == x.k = "fin"

\* x <= y and x < y on doubles: false as soon as one side is NaN
dLE(x, y) == /\ ~isnan(x) /\ ~isnan(y)
             /\ \/ x.k = "ninf"
                \/ y.k = "pinf"
                \/ (x.k = "fin" /\ y.k = "fin" /\ x.v <= y.v)
dLT(x, y) == ~isnan(x) /\ ~isnan(y) /\ ~dLE(y, x)

(***************************************************************************)
(* The arithmetic of double, bit for bit.  A finite double in this form is *)
(* s * m * 2^e: the sign s, the 53-bit significand m as four digits of     *)
(* base 2^14 (least significant first) and the exponent e; zero has m = 0. *)
(* Natural numbers wider than 31 bits are sequences of such digits.        *)
(***************************************************************************)
LIMB == 2 ^ 14

Digit(a, i) == IF 1 <= i /\ i <= Len(a) THEN a[i] ELSE 0
Larger(i, j) == IF i >= j THEN i ELSE j

\* the digits of the number whose columns (of any size) are cols
RECURSIVE Carry(_, _, _)
Carry(cols, i, c) ==
    IF i > Len(cols)
    THEN (IF c = 0 THEN <<>> ELSE <<c % LIMB>> \o Carry(cols, i, c \div LIMB))
    ELSE <<(cols[i] + c) % LIMB>> \o Carry(cols, i + 1, (cols[i] + c) \div LIMB)

BigOf(n)     == Carry(<<n>>, 1, 0)
BigAdd(a, b) == Carry([i \in 1 .. Larger(Len(a), Len(b)) |-> Digit(a, i) + Digit(b, i)], 1, 0)
\* a - b for a >= b
BigSub(a, b) == Carry([i \in 1 .. Larger(Len(a), Len(b)) |-> Digit(a, i) - Digit(b, i)], 1, 0)

RECURSIVE ColSum(_, _, _, _)
ColSum(a, b, k, i) ==
    IF i > Len(a) THEN 0 ELSE a[i] * Digit(b, k + 1 - i) + ColSum(a, b, k, i + 1)
BigMul(a, b) == Carry([k \in 1 .. Len(a) + Len(b) - 1 |-> ColSum(a, b, k, 1)], 1, 0)

\* a * 2^n
BigShl(a, n) ==
    [i \in 1 .. n \div 14 |-> 0] \o Carry([i \in 1 .. Len(a) |-> a[i] * 2 ^ (n % 14)], 1, 0)

\* quotient q and remainder r of a by d, d below 2^17: the digits lo .. hi
\* are divided with the remainder r carried in from the digits above, the
\* upper half of them first
RECURSIVE BigDivRange(_, _, _, _, _)
BigDivJoin(lower, upper) == [q |-> lower.q \o upper.q, r |-> lower.r]
BigDivLower(a, lo, hi, upper, d) ==
    IF upper.r >= d THEN upper
    ELSE BigDivJoin(BigDivRange(a, lo, (lo + hi) \div 2, upper.r, d), upper)
BigDivRange(a, lo, hi, r, d) ==
    IF lo > hi THEN [q |-> <<>>, r |-> r]
    ELSE IF lo = hi THEN [q |-> <<(r * LIMB + a[lo]) \div d>>, r |-> (r * LIMB + a[lo]) % d]
    ELSE BigDivLower(a, lo, hi, BigDivRange(a, (lo + hi) \div 2 + 1, hi, r, d), d)
BigDiv(a, d) == BigDivRange(a, 1, Len(a), 0, d)

\* a \div 2^n, and whether a bit that was set is lost
BigShr(a, n) ==
    LET dv == BigDiv(SubSeq(a, n \div 14 + 1, Len(a)), 2 ^ (n % 14))
    IN  [q |-> dv.q, lost |-> dv.r # 0 \/ \E i \in 1 .. n \div 14 : Digit(a, i) # 0]

RECURSIVE BigCmpFrom(_, _, _)
BigCmpFrom(a, b, i) ==
    IF i = 0 THEN 0
    ELSE IF Digit(a, i) > Digit(b, i) THEN 1
    ELSE IF Digit(a, i) < Digit(b, i) THEN -1
    ELSE BigCmpFrom(a, b, i - 1)
\* 1, 0, -1 as a is above, equal to, below b
BigCmp(a, b) == BigCmpFrom(a, b, Larger(Len(a), Len(b)))

RECURSIVE NumBits(_)
NumBits(v) == IF v < 2 THEN 1 ELSE 1 + NumBits(v \div 2)
\* the highest position from lo to hi of a digit of a that is not 0, or 0
RECURSIVE TopDigit(_, _, _)
TopOr(upper, a, lo, hi) == IF upper # 0 THEN upper ELSE TopDigit(a, lo, (lo + hi) \div 2)
TopDigit(a, lo, hi) ==
    IF lo > hi THEN 0
    ELSE IF lo = hi THEN (IF a[lo] # 0 THEN lo ELSE 0)
    ELSE TopOr(TopDigit(a, (lo + hi) \div 2 + 1, hi), a, lo, hi)
\* the number of bits of a, 0 for zero
BigBits(a) ==
    LET t == TopDigit(a, 1, Len(a))
    IN  IF t = 0 THEN 0 ELSE 14 * (t - 1) + NumBits(a[t])

Dbl(s, m, e) == [k |-> "fin", s |-> s, m |-> <<Digit(m, 1), Digit(m, 2), Digit(m, 3), Digit(m, 4)>>, e |-> e]
DZero == Dbl(1, <<>>, 0)
DNaN  == [k |-> "nan", s |-> 1, m |-> <<0, 0, 0, 0>>, e |-> 0]
DPInf == [k |-> "pinf", s |-> 1, m |-> <<0, 0, 0, 0>>, e |-> 0]
DNInf == [k |-> "ninf", s |-> -1, m |-> <<0, 0, 0, 0>>, e |-> 0]
DInf(s) == IF s = 1 THEN DPInf ELSE DNInf
IsZero(x) == x.k = "fin" /\ x.m = <<0, 0, 0, 0>>

\* the double nearest to s * n * 2^e (ties to the even significand), n > 0;
\* sticky tells that n was cut from a number with further bits set, and n
\* then has 55 bits or more
\* m is the rounded significand of 53 bits, or 2^53 after a carry
RoundCarry(s, m, e) ==
    IF BigBits(m) = 54 THEN Dbl(s, BigDiv(m, 2).q, e + 1) ELSE Dbl(s, m, e)
\* body holds the leading 53 bits (q) and the bit after them (r)
RoundHalfEven(s, body, e, sticky) ==
    RoundCarry(s, IF body.r = 1 /\ (sticky \/ body.q[1] % 2 = 1)
                  THEN BigAdd(body.q, <<1>>) ELSE body.q, e)
\* t holds the leading 54 bits (q) and whether a set bit was cut (lost)
RoundGuard(s, t, e, sticky) == RoundHalfEven(s, BigDiv(t.q, 2), e, t.lost \/ sticky)
RoundBits(s, n, e, sticky, bits) ==
    IF bits <= 53 THEN Dbl(s, BigShl(n, 53 - bits), e - (53 - bits))
    ELSE RoundGuard(s, BigShr(n, bits - 54), e + bits - 53, sticky)
Round53(s, n, e, sticky) == RoundBits(s, n, e, sticky, BigBits(n))
\* the double nearest to s * (dv.q + a fraction that is 0 iff dv.r = 0) * 2^e
RoundQuot(s, dv, e) == Round53(s, dv.q, e, dv.r # 0)

\* the double nearest to num / den, as a decimal literal or std::stod gives
\* it; den is positive and below 2^17
DblOfRatio(num, den) ==
    IF num = 0 THEN DZero
    ELSE RoundQuot(IF num < 0 THEN -1 ELSE 1,
                   BigDiv(BigShl(BigOf(IF num < 0 THEN -num ELSE num), 70), den), -70)

\* 1, 0, -1 as |x| is above, equal to, below |y|, for finite x and y
MagCmp(x, y) ==
    IF IsZero(x) \/ IsZero(y) THEN (IF ~IsZero(x) THEN 1 ELSE IF ~IsZero(y) THEN -1 ELSE 0)
    ELSE IF x.e # y.e THEN (IF x.e > y.e THEN 1 ELSE -1)
    ELSE BigCmp(x.m, y.m)

fLT(x, y) ==
    IF x.k = "nan" \/ y.k = "nan" THEN FALSE
    ELSE IF x.k # "fin" \/ y.k # "fin" 
         THEN (x.k = "ninf" /\ y.k # "ninf") \/ (y.k = "pinf" /\ x.k # "pinf")
    ELSE IF IsZero(x) /\ IsZero(y) THEN FALSE
    ELSE IF IsZero(x) THEN y.s = 1
    ELSE IF IsZero(y) THEN x.s = -1
    ELSE IF x.s # y.s THEN x.s = -1
    ELSE x.s * MagCmp(x, y) < 0
fLE(x, y) == x.k # "nan" /\ y.k # "nan" /\ ~fLT(y, x)

fNeg(x) == IF x.k = "fin" THEN [x EXCEPT !.s = -x.s]
           ELSE IF x.k = "pinf" THEN DNInf
           ELSE IF x.k = "ninf" THEN DPInf ELSE DNaN

\* x + y: the smaller operand is brought to the exponent of the sum; beyond
\* 56 bits of distance it cannot change the rounded result
\* a * 2^e and b * 2^e with signs hs and ls, a >= b
AddAligned(hs, ls, a, b, e) ==
    IF hs # ls /\ BigCmp(a, b) = 0 THEN DZero
    ELSE Round53(hs, IF hs = ls THEN BigAdd(a, b) ELSE BigSub(a, b), e, FALSE)
\* |hi| >= |lo|, neither zero
AddOrdered(hi, lo) ==
    IF hi.e - lo.e > 56 THEN hi
    ELSE AddAligned(hi.s, lo.s, BigShl(hi.m, hi.e - lo.e), lo.m, lo.e)

fAdd(x, y) ==
    IF x.k = "nan" \/ y.k = "nan" THEN DNaN
    ELSE IF x.k # "fin" /\ y.k # "fin" THEN (IF x.k = y.k THEN x ELSE DNaN)
    ELSE IF x.k # "fin" THEN x
    ELSE IF y.k # "fin" THEN y
    ELSE IF IsZero(y) THEN x
    ELSE IF IsZero(x) THEN y
    ELSE IF MagCmp(x, y) >= 0 THEN AddOrdered(x, y) ELSE AddOrdered(y, x)

fSub(x, y) == fAdd(x, fNeg(y))

fMul(x, y) ==
    IF x.k = "nan" \/ y.k = "nan" THEN DNaN
    ELSE IF x.k # "fin" \/ y.k # "fin"
         THEN (IF IsZero(x) \/ IsZero(y) THEN DNaN ELSE DInf(x.s * y.s))
    ELSE IF IsZero(x) \/ IsZero(y) THEN DZero
    ELSE Round53(x.s * y.s, BigMul(x.m, y.m), x.e + y.e, FALSE)

\* a \div the factors ds[i .. j], the first half of them first; r is 1 when
\* a remainder was lost on the way, 0 when the division is exact
RECURSIVE BigDivAll(_, _, _, _, _)
BigDivHalf(lower, ds, i, j) ==
    IF lower.r # 0 THEN BigDivAll(lower.q, ds, (i + j) \div 2 + 1, j, TRUE)
    ELSE BigDivAll(lower.q, ds, (i + j) \div 2 + 1, j, FALSE)
BigDivAll(a, ds, i, j, lost) ==
    IF i > j THEN [q |-> a, r |-> IF lost THEN 1 ELSE 0]
    ELSE IF i = j THEN [q |-> BigDiv(a, ds[i]).q,
                        r |-> IF lost \/ BigDiv(a, ds[i]).r # 0 THEN 1 ELSE 0]
    ELSE BigDivHalf(BigDivAll(a, ds, i, (i + j) \div 2, lost), ds, i, j)

\* x / n for an unsigned n given by factors below 2^17 whose product it is;
\* a factor 0 gives an infinity (0/0 gives NaN)
fDivU(x, ds) ==
    IF x.k = "nan" THEN DNaN
    ELSE IF \E i \in 1 .. Len(ds) : ds[i] = 0
         THEN (IF IsZero(x) THEN DNaN ELSE IF x.k = "fin" THEN DInf(x.s) ELSE x)
    ELSE IF x.k # "fin" \/ IsZero(x) THEN x
    ELSE RoundQuot(x.s, BigDivAll(BigShl(x.m, 40), ds, 1, Len(ds), FALSE), x.e - 40)

\* voltages are held in units of 0.5 mV
VOLT_1V == 2000

\* a voltage as a double: a value of the 0.5 mV grid as the double std::stod
\* or a literal gives for it, a double as it is
VoltD(x) ==
    IF "m" \in DOMAIN x THEN x
    ELSE IF x.k = "fin" THEN DblOfRatio(x.v, VOLT_1V)
    ELSE IF x.k = "pinf" THEN DPInf
    ELSE IF x.k = "ninf" THEN DNInf ELSE DNaN

(***************************************************************************)
(* The attenuation tables (volts per division by table index, 0-based in   *)
(* the program, 1-based sequences here: Volts(t, i) takes the program's    *)
(* index).                                                                 *)
(***************************************************************************)
VoltagePairs1X  == <<1, 2, 4, 10, 20, 40, 100, 200, 400, 1000, 2000, 4000, 10000, 20000>>
VoltagePairs10X == <<10, 20, 40, 100, 200, 400, 1000, 2000, 4000, 10000, 20000, 40000,
                     100000, 200000>>
VoltagePairs(atten) == IF atten = 1 THEN VoltagePairs1X ELSE VoltagePairs10X
Volts(atten, i)     == VoltagePairs(atten)[i + 1]

Abs(x) == IF x < 0 THEN -x ELSE x

\* abs(scale.vdiv - volts) of Oscilloscope.cpp:1034, in quarters of a
\* millivolt.  The subtraction is one of doubles: it is exact on every pair
\* of a value in 0.5 mV units and a tabulated value where two entries lie
\* equally far, but for 35 mV against 20 mV, where 0.035 - 0.02 rounds to
\* 0.015000000000000003, above the 0.015 of 0.05 - 0.035.
vDelta(vdiv, volts) ==
    2 * Abs(vdiv - volts) + (IF vdiv = 70 /\ volts = 40 THEN 1 ELSE 0)

\* The loop of Oscilloscope.cpp:1032-1042: the first index whose tabulated
\* value is nearest to vdiv (a later index replaces it only when strictly nearer).
RECURSIVE NearestFrom(_, _, _, _)
NearestFrom(atten, vdiv, i, best) ==
    IF i >= N_VOLTAGE_PAIRS THEN best
    ELSE IF best < 0 \/ vDelta(vdiv, Volts(atten, i)) < vDelta(vdiv, Volts(atten, best))
         THEN NearestFrom(atten, vdiv, i + 1, i)
         ELSE NearestFrom(atten, vdiv, i + 1, best)
NearestIndex(atten, vdiv) == NearestFrom(atten, vdiv, 0, -1)

\* Oscilloscope.cpp:981-984
LimitAdjust(adjust) ==
    IF adjust < -ADJ_LIMIT THEN -ADJ_LIMIT
    ELSE IF adjust > ADJ_LIMIT THEN ADJ_LIMIT ELSE adjust

\* Oscilloscope.cpp:1046-1056: the index and the applied step after adding
\* iAdjActual to the nearest index iChoose.  The upper clamp subtracts
\* (iChoose - nVoltagePairs), as the source does.
StepAndClamp(iChoose0, iAdj0) ==
    LET i1   == iChoose0 + iAdj0
        adj2 == IF i1 < 0 THEN iAdj0 - i1 ELSE iAdj0
        i2   == IF i1 < 0 THEN 0 ELSE i1
        adj3 == IF i2 > N_VOLTAGE_PAIRS - 1 THEN adj2 - (i2 - N_VOLTAGE_PAIRS) ELSE adj2
        i3   == IF i2 > N_VOLTAGE_PAIRS - 1 THEN N_VOLTAGE_PAIRS - 1 ELSE i2
    IN  [iChoose |-> i3, iAdjActual |-> adj3]

\* Oscilloscope.cpp:1013-1016: the scale values read from a channel
ReadScale(chst) ==
    [vdiv |-> chst.vdiv, offset |-> 0,
     pp   |-> chst.vdiv * nVoltageDivisions,
     max  |-> (chst.vdiv * nVoltageDivisions) \div 2,
     min  |-> -((chst.vdiv * nVoltageDivisions) \div 2)]

\* Oscilloscope::AdjustChannelVolts(ch, adjust, scale) on the channel state
\* chst = [vdiv, atten]: the new channel state, the scale reported and the
\* value returned.
AdjustChannelVolts(chst, adjust) ==
    LET iAdj == LimitAdjust(adjust)
    IN  IF iAdj = 0
        THEN [ch |-> chst, scale |-> ReadScale(chst), ret |-> 0]
        ELSE IF chst.atten = 1 \/ chst.atten = 10
        THEN LET sc  == StepAndClamp(NearestIndex(chst.atten, chst.vdiv), iAdj)
                 new == [chst EXCEPT !.vdiv = Volts(chst.atten, sc.iChoose)]
             IN  [ch |-> new, scale |-> ReadScale(new), ret |-> sc.iAdjActual]
        ELSE [ch |-> chst, scale |-> ReadScale(chst), ret |-> 0]

\* SEEK_MAX - SEEK_MARGIN, SEEK_MIN - SEEK_MARGIN and SEEK_MID - SEEK_MARGIN
\* (FreqResp.cpp:31-34, 592-596) as the doubles the subtractions give
SEEK_MARGIN_D == DblOfRatio(275, 10000)
SEEK_HI_D     == fSub(DblOfRatio(1000, 1000), SEEK_MARGIN_D)
SEEK_LO_D     == fSub(DblOfRatio(200, 1000), SEEK_MARGIN_D)
SEEK_MD_D     == fSub(DblOfRatio(390, 1000), SEEK_MARGIN_D)

\* the step asked for when the reading m is set against hi, lo and md times
\* the full scale p (FreqResp.cpp:592-599)
SeekAgainst(m, p, hi, lo, md) ==
    IF      fLT(fMul(hi, p), m) THEN 1
    ELSE IF fLT(m, fMul(lo, p)) THEN -2
    ELSE IF fLT(m, fMul(md, p)) THEN -1
    ELSE 0

\* the same with a step down asked for below half of full scale
SeekRequestHalf(mag_pkpk, pp) ==
    SeekAgainst(VoltD(mag_pkpk), VoltD(Fin(pp)), SEEK_HI_D, SEEK_LO_D, DblOfRatio(1, 2))

\* FreqResp.cpp:592-599: the step MeasureAndScaleInput requests for a
\* peak-to-peak reading against the full-scale value pp = 8 * vdiv
SeekRequest(mag_pkpk, pp) ==
    SeekAgainst(VoltD(mag_pkpk), VoltD(Fin(pp)), SEEK_HI_D, SEEK_LO_D, SEEK_MD_D)

(***************************************************************************)
(* The timebase.  A time is a double: finite values are v * 10^e seconds.  *)
(***************************************************************************)
TFin(v, e) == [k |-> "fin", v |-> v, e |-> e]
TNaN  == [k |-> "nan", v |-> 0, e |-> 0]
TPInf == [k |-> "pinf", v |-> 0, e |-> 0]
TNInf == [k |-> "ninf", v |-> 0, e |-> 0]

RECURSIVE Pow10(_)
Pow10(n) == IF n <= 0 THEN 1 ELSE 10 * Pow10(n - 1)

\* a <= b for positive finite times whose mantissas are below 10^5
TPosLE(a, b) ==
    IF      a.e - b.e >= 5  THEN FALSE
    ELSE IF b.e - a.e >= 5  THEN TRUE
    ELSE IF a.e >= b.e      THEN a.v * Pow10(a.e - b.e) <= b.v
    ELSE a.v <= b.v * Pow10(b.e - a.e)

\* a <= b on doubles: false when either is NaN
TLE(a, b) ==
    IF a.k = "nan" \/ b.k = "nan" THEN FALSE
    ELSE IF a.k = "ninf" \/ b.k = "pinf" THEN TRUE
    ELSE IF a.k = "pinf" \/ b.k = "ninf" THEN FALSE
    ELSE IF a.v <= 0 /\ b.v >= 0 THEN TRUE
    ELSE IF a.v >= 0 /\ b.v <= 0 THEN FALSE
    ELSE IF a.v > 0 THEN TPosLE(a, b)
    ELSE TPosLE(TFin(-b.v, b.e), TFin(-a.v, a.e))

\* x * n for a small whole n
TScale(x, n) == IF x.k = "fin" THEN TFin(x.v * n, x.e) ELSE x

\* Oscilloscope.cpp:93-129: the seconds per division of TimePairs[0..33]
TimePairs ==
    <<TFin(1, -9), TFin(2, -9), TFin(5, -9),
      TFin(1, -8), TFin(2, -8), TFin(5, -8),
      TFin(1, -7), TFin(2, -7), TFin(5, -7),
      TFin(1, -6), TFin(2, -6), TFin(5, -6),
      TFin(1, -5), TFin(2, -5), TFin(5, -5),
      TFin(1, -4), TFin(2, -4), TFin(5, -4),
      TFin(1, -3), TFin(2, -3), TFin(5, -3),
      TFin(1, -2), TFin(2, -2), TFin(5, -2),
      TFin(1, -1), TFin(2, -1), TFin(5, -1),
      TFin(1, 0), TFin(2, 0), TFin(5, 0),
      TFin(1, 1), TFin(2, 1), TFin(5, 1),
      TFin(1, 2)>>
nTimePairs     == 34
nTimeDivisions == 14
TimeSec(i) == TimePairs[i + 1]

\* the test of line 1225 with < for <=
TdivBelow(tcapture, sec) ==
    /\ TLE(tcapture, TScale(sec, nTimeDivisions))
    /\ ~TLE(TScale(sec, nTimeDivisions), tcapture)

\* Oscilloscope.cpp:1217 and 1225: tcapture / nTimeDivisions <= sec
TdivFits(tcapture, sec) == TLE(tcapture, TScale(sec, nTimeDivisions))

\* the loop of lines 1223-1231 from index i on; the last entry is the default
RECURSIVE PickFrom(_, _)
PickFrom(tcapture, i) ==
    IF i >= nTimePairs - 1 THEN nTimePairs - 1
    ELSE IF TdivFits(tcapture, TimeSec(i)) THEN i
    ELSE PickFrom(tcapture, i + 1)

\* the loop with the first entry as the default
RECURSIVE PickFromFirst(_, _)
PickFromFirst(tcapture, i) ==
    IF i >= nTimePairs - 1 THEN 0
    ELSE IF TdivFits(tcapture, TimeSec(i)) THEN i
    ELSE PickFromFirst(tcapture, i + 1)

\* the pick with the first entry as the default
SetTimebasePickFirst(tcapture) == PickFromFirst(tcapture, 0)

\* Oscilloscope::SetTimebase(tcapture, delay), lines 1217-1231: the index picked
SetTimebasePick(tcapture) == PickFrom(tcapture, 0)

\* lines 1233-1236: the value returned, written telling whether
\* SetTimebase(tpick, delay) succeeded
SetTimebaseReturn(pick, written) ==
    IF written THEN TScale(TimeSec(pick), nTimeDivisions) ELSE TNaN

NoIo == [op |-> "none"]

\* the instrument objects a program may hold
Instruments == {"oscope", "stimulus", "spare"}

NoSockCall == [op |-> "none", obj |-> "none", was |-> FALSE, ret |-> FALSE]

\* the statics before any object is constructed (part_005:28-29)
NoSock == [bSocketsInitialized |-> FALSE, nInstrAttached |-> 0, alive |-> {},
           bAttached |-> [o \in Instruments |-> FALSE], last |-> NoSockCall]

NoTb == [tcapture |-> TNaN, written |-> FALSE, pick |-> -1, ret |-> TNaN,
         before |-> [tcapture |-> TNaN, pick |-> -1]]

(***************************************************************************)
(* The stimulus generator.  A phase is a double like a time: v * 10^e      *)
(* degrees, either a whole number of thousandths of a degree (e = -3) or a *)
(* value so small (e = PHASE_TINY) that adding it to 360 gives 360.        *)
(***************************************************************************)
PHASE_TINY == -20
PHASE_TURN == 360000   \* 360.0 in thousandths of a degree

\* floor(phase / 360.0) of a finite phase
PhaseFloor(phase) ==
    IF phase.e = PHASE_TINY
    THEN (IF phase.v < 0 THEN -1 ELSE 0)
    ELSE phase.v \div PHASE_TURN

\* phase - 360.0 * n in double arithmetic
PhaseSub(phase, n) ==
    IF phase.e = PHASE_TINY
    THEN (IF n = 0 THEN phase ELSE TFin(-(n * PHASE_TURN), -3))
    ELSE TFin(phase.v - n * PHASE_TURN, -3)

\* SineGenerator::CoercePhase (part_002:136-141); inf - inf and NaN give NaN
CoercePhase(phase) ==
    IF phase.k # "fin" THEN TNaN
    ELSE PhaseSub(phase, PhaseFloor(phase))

\* the commands of SineGenerator::SetChannel, in the order of part_002:186-209
SetChannelCommands == <<"FREQ", "VOLT", "VOLT:OFFS", "PHAS">>

\* one guarded block of SetChannel: the parameter is written when the writes
\* so far succeeded and it is not NaN; ok is the outcome of Write
SetChannelStep(r, i, param, ok) ==
    IF r.ret /\ ~(param.k = "nan")
    THEN [sent |-> Append(r.sent, SetChannelCommands[i]), ret |-> ok]
    ELSE r

\* the same without the test of bResult
SetChannelStepAll(r, i, param, ok) ==
    IF ~(param.k = "nan")
    THEN [sent |-> Append(r.sent, SetChannelCommands[i]), ret |-> ok]
    ELSE r

\* SetChannel that writes every parameter given, whatever the writes before did
SetChannelKeepsOn(freqArg, Vpp, Voffs, phase, oks) ==
    SetChannelStepAll(
        SetChannelStepAll(
            SetChannelStepAll(
                SetChannelStepAll([sent |-> <<>>, ret |-> TRUE], 1, freqArg, oks[1]),
                2, Vpp, oks[2]),
            3, Voffs, oks[3]),
        4, phase, oks[4])

\* SineGenerator::SetChannel (part_002:179-212): the commands handed to Write
\* and the value returned; oks[i] is the outcome of the write of parameter i
SetChannel(freqArg, Vpp, Voffs, phase, oks) ==
    SetChannelStep(
        SetChannelStep(
            SetChannelStep(
                SetChannelStep([sent |-> <<>>, ret |-> TRUE], 1, freqArg, oks[1]),
                2, Vpp, oks[2]),
            3, Voffs, oks[3]),
        4, phase, oks[4])

(***************************************************************************)
(* Oscilloscope::SetChannelVolts and SetChannelOffset on a channel state   *)
(* [vdiv, atten, offset]: the new channel state, the commands handed to    *)
(* Write and the value returned.  A VoltsPerDiv value is named by its      *)
(* volts per division, UNSPEC by 0.                                        *)
(***************************************************************************)
\* Oscilloscope.cpp:695-706; ok is the outcome of Write
SetChannelOffset(chst, offset, ok) ==
    IF ~isnan(offset)
    THEN [ch |-> IF ok THEN [chst EXCEPT !.offset = offset] ELSE chst,
          sent |-> <<"OFST">>, ret |-> ok]
    ELSE [ch |-> chst, sent |-> <<>>, ret |-> FALSE]

\* the test of line 635 over the table of the attenuation
InVoltagePairs(atten, vdiv) ==
    \E i \in 0 .. N_VOLTAGE_PAIRS - 1 : Volts(atten, i) = vdiv

\* Oscilloscope.cpp:617-652; okV and okO are the outcomes of the two writes
SetChannelVolts(chst, vdiv, offset, okV, okO) ==
    IF chst.atten = 1 \/ chst.atten = 10
    THEN IF InVoltagePairs(chst.atten, vdiv)
         THEN IF okV
              THEN LET o == SetChannelOffset([chst EXCEPT !.vdiv = vdiv], offset, okO)
                   IN  [ch |-> o.ch, sent |-> <<"VDIV">> \o o.sent, ret |-> o.ret]
              ELSE [ch |-> chst, sent |-> <<"VDIV">>, ret |-> FALSE]
         ELSE [ch |-> chst, sent |-> <<>>, ret |-> FALSE]
    ELSE [ch |-> chst, sent |-> <<>>, ret |-> FALSE]

(***************************************************************************)
(* Replies of the oscilloscope.  A reply is [ok, header, field]: whether   *)
(* Query succeeded, whether the text around the value matches the pattern  *)
(* of the caller, and the characters of the value.                         *)
(***************************************************************************)
\* std::invalid_argument and std::out_of_range leaving std::stod
Raised     == [k |-> "raise", v |-> 0, e |-> 0]
OutOfRange == [k |-> "range", v |-> 0, e |-> 0]
Thrown(t)  == t.k = "raise" \/ t.k = "range"

DigitChars == <<"0", "1", "2", "3", "4", "5", "6", "7", "8", "9">>
IsDigit(c) == \E d \in 1 .. 10 : DigitChars[d] = c
DigitVal(c) == (CHOOSE d \in 1 .. 10 : DigitChars[d] = c) - 1

\* the hexadecimal digits above 9, in either case
HexLetters == <<{"a", "A"}, {"b", "B"}, {"c", "C"}, {"d", "D"}, {"e", "E"}, {"f", "F"}>>
IsHex(c) == IsDigit(c) \/ \E d \in 1 .. 6 : c \in HexLetters[d]
HexVal(c) == IF IsDigit(c) THEN DigitVal(c) ELSE 9 + (CHOOSE d \in 1 .. 6 : c \in HexLetters[d])

\* the white space strtod skips ahead of the number (isspace): space, tab,
\* line feed, vertical tab (the character 11, written raw), form feed and
\* carriage return
WhiteChars == {" ", "\t", "\n", "", "\f", "\r"}

RECURSIVE SkipWhite(_, _)
SkipWhite(str, i) ==
    IF i <= Len(str) /\ str[i] \in WhiteChars THEN SkipWhite(str, i + 1) ELSE i

\* the words strtod takes for an infinity and for a NaN, in either case
InfWord == <<{"i", "I"}, {"n", "N"}, {"f", "F"}>>
NanWord == <<{"n", "N"}, {"a", "A"}, {"n", "N"}>>
HasWord(str, i, w) ==
    /\ i + Len(w) - 1 <= Len(str)
    /\ \A j \in 1 .. Len(w) : str[i + j - 1] \in w[j]

\* the digits of str from position i on, added to the value v
RECURSIVE StodDigits(_, _, _, _)
StodDigits(str, i, v, n) ==
    IF i <= Len(str) /\ IsDigit(str[i])
    THEN StodDigits(str, i + 1, 10 * v + DigitVal(str[i]), n + 1)
    ELSE [i |-> i, v |-> v, n |-> n]

\* the digits of an exponent; beyond EXP_CAP no value is in the range of a double
EXP_CAP == 100000
RECURSIVE StodExp(_, _, _, _)
StodExp(str, i, v, n) ==
    IF i <= Len(str) /\ IsDigit(str[i])
    THEN StodExp(str, i + 1, IF 10 * v + DigitVal(str[i]) > EXP_CAP THEN EXP_CAP
                             ELSE 10 * v + DigitVal(str[i]), n + 1)
    ELSE [i |-> i, v |-> v, n |-> n]

RECURSIVE StodHex(_, _, _, _)
StodHex(str, i, v, n) ==
    IF i <= Len(str) /\ IsHex(str[i])
    THEN StodHex(str, i + 1, 16 * v + HexVal(str[i]), n + 1)
    ELSE [i |-> i, v |-> v, n |-> n]

\* the number of decimal digits and of bits of v > 0, and its trailing zero bits
RECURSIVE NumDigits(_)
NumDigits(v) == IF v < 10 THEN 1 ELSE 1 + NumDigits(v \div 10)
RECURSIVE LowZeros(_)
LowZeros(v) == IF v % 2 = 1 THEN 0 ELSE 1 + LowZeros(v \div 2)

\* DBL_MAX is 1.7976931348...E308 and DBL_MIN 2.2250738585...E-308: whether
\* v * 10^e, v > 0 of at most ten digits, is beyond the one or below the other
DBL_MAX_DIGITS == 1797693134
DBL_MIN_DIGITS == 222507385
DecTooLarge(v, e) ==
    LET nd == NumDigits(v)
        m  == e + nd - 1
    IN  m > 308 \/ (m = 308 /\ v > DBL_MAX_DIGITS \div Pow10(10 - nd))
DecTooSmall(v, e) ==
    LET nd == NumDigits(v)
        m  == e + nd - 1
    IN  m < -308 \/ (m = -308 /\ (nd = 10 \/ v <= DBL_MIN_DIGITS \div Pow10(9 - nd)))

\* an exponent [sign] digits from position j0 on; without digits it is 0
ExpValue(eneg, ep) == IF ep.n > 0 THEN (IF eneg THEN -ep.v ELSE ep.v) ELSE 0
ExpSigned(str, j0) ==
    ExpValue(j0 <= Len(str) /\ str[j0] = "-",
             StodExp(str, IF j0 <= Len(str) /\ str[j0] \in {"-", "+"} THEN j0 + 1 ELSE j0, 0, 0))
\* the exponent that a letter of marks at position i introduces, 0 without one
ExpPart(str, i, marks) == IF i <= Len(str) /\ str[i] \in marks THEN ExpSigned(str, i + 1) ELSE 0

\* the decimal form [digits] [. digits] [E [sign] digits] from position i0 on:
\* ip is the integer part, fp the value with the fraction's digits added
DecValue(neg, intn, fp, exp) ==
    IF intn + fp.n = 0 THEN Raised
    ELSE IF fp.v = 0 THEN TFin(0, 0)
    ELSE IF DecTooLarge(fp.v, exp - fp.n) \/ DecTooSmall(fp.v, exp - fp.n) THEN OutOfRange
    ELSE TFin(IF neg THEN -fp.v ELSE fp.v, exp - fp.n)
DecExponent(str, neg, intn, fp) == DecValue(neg, intn, fp, ExpPart(str, fp.i, {"E", "e"}))
DecFraction(str, neg, ip) ==
    DecExponent(str, neg, ip.n,
                IF ip.i <= Len(str) /\ str[ip.i] = "." THEN StodDigits(str, ip.i + 1, ip.v, 0)
                ELSE [i |-> ip.i, v |-> ip.v, n |-> 0])
StodDecimal(str, i0, neg) == DecFraction(str, neg, StodDigits(str, i0, 0, 0))

\* the hexadecimal form hexdigits [. hexdigits] [P [sign] digits] that follows
\* 0x at position i0; the value is v * 2^b, out of range when it is 2^1024 or
\* more, or when it is below 2^-1022 and no multiple of 2^-1074
HexScaled(neg, v, b) ==
    IF NumBits(v) + b > 1024 THEN OutOfRange
    ELSE IF NumBits(v) + b < -1021 /\ LowZeros(v) + b < -1074 THEN OutOfRange
    ELSE IF b >= 0 THEN TFin((IF neg THEN -v ELSE v) * 2 ^ b, 0)
    ELSE TFin((IF neg THEN -v ELSE v) * 5 ^ (-b), b)
HexValue(neg, intn, fp, exp) ==
    IF intn + fp.n = 0 \/ fp.v = 0 THEN TFin(0, 0)
    ELSE HexScaled(neg, fp.v, exp - 4 * fp.n)
HexExponent(str, neg, intn, fp) == HexValue(neg, intn, fp, ExpPart(str, fp.i, {"P", "p"}))
HexFraction(str, neg, ip) ==
    HexExponent(str, neg, ip.n,
                IF ip.i <= Len(str) /\ str[ip.i] = "." THEN StodHex(str, ip.i + 1, ip.v, 0)
                ELSE [i |-> ip.i, v |-> ip.v, n |-> 0])
StodHexadecimal(str, i0, neg) == HexFraction(str, neg, StodHex(str, i0, 0, 0))

\* std::stod: white space is skipped, then the longest prefix that is a
\* number is converted: [sign] and INF, NAN, 0X and a hexadecimal form, or a
\* decimal form.  std::invalid_argument is thrown when there is no such
\* prefix, std::out_of_range when the number is outside the range of a double.
stod(str) ==
    LET w   == SkipWhite(str, 1)
        neg == w <= Len(str) /\ str[w] = "-"
        i0  == IF w <= Len(str) /\ str[w] \in {"-", "+"} THEN w + 1 ELSE w
    IN  IF HasWord(str, i0, InfWord) THEN (IF neg THEN TNInf ELSE TPInf)
        ELSE IF HasWord(str, i0, NanWord) THEN TNaN
        ELSE IF /\ i0 + 1 <= Len(str) /\ str[i0] = "0" /\ str[i0 + 1] \in {"x", "X"}
             THEN StodHexadecimal(str, i0 + 2, neg)
        ELSE StodDecimal(str, i0, neg)

\* the class [0-9.E+-] of the patterns of Measure and MeasureDelay
MeasClass == {DigitChars[d] : d \in 1 .. 10} \cup {".", "E", "+", "-"}
FieldInClass(field) == Len(field) >= 1 /\ \A i \in 1 .. Len(field) : field[i] \in MeasClass

\* Oscilloscope::Measure (Oscilloscope.cpp:1109-1137) on the reply to PAVA?
Measure(reply) ==
    IF reply.ok /\ reply.header = "good" /\ FieldInClass(reply.field)
    THEN stod(reply.field) ELSE TNaN

\* Oscilloscope::MeasureDelay (Oscilloscope.cpp:1151-1181) on the reply to MEAD?
MeasureDelay(reply) ==
    IF reply.ok /\ reply.header = "good" /\ FieldInClass(reply.field)
    THEN stod(reply.field) ELSE TNaN

\* the four writes of SetEdgeTrigger (Oscilloscope.cpp:567-573), each made
\* when the one before succeeded; oks[i] is the outcome of write i
TrigCommands == <<"TRCP", "TRLV", "TRSE", "TRSL">>

RECURSIVE TrigWrites(_, _, _)
TrigWrites(i, sent, oks) ==
    IF i > Len(TrigCommands) THEN [sent |-> sent, ret |-> TRUE]
    ELSE IF oks[i] THEN TrigWrites(i + 1, Append(sent, TrigCommands[i]), oks)
    ELSE [sent |-> Append(sent, TrigCommands[i]), ret |-> FALSE]

NoLevel == [num |-> NaN, den |-> TNaN]

\* the writes w made at the attenuation attn that std::stod returned
\* (Oscilloscope.cpp:519-560); an exception of std::stod leaves the call
TrigAtAttn(attn, voltage, w) ==
    IF Thrown(attn)
    THEN [sent |-> <<>>, ret |-> FALSE, raised |-> TRUE, level |-> NoLevel]
    ELSE [sent |-> w.sent, ret |-> w.ret, raised |-> FALSE,
          level |-> IF Len(w.sent) >= 2 THEN [num |-> voltage, den |-> attn] ELSE NoLevel]

\* Oscilloscope::SetEdgeTrigger (Oscilloscope.cpp:501-578) on the reply to
\* ATTN?: the commands handed to Write, the value returned, whether an
\* exception left the call, and the level of TRLV as voltage over attn.
\* The field is the text between the header and the closing line feed; the
\* group (.+) of the pattern matches one character or more, none of them a
\* line feed or a carriage return
SetEdgeTrigger(reply, voltage, oks) ==
    IF /\ reply.ok /\ reply.header = "good" /\ Len(reply.field) >= 1
       /\ \A i \in 1 .. Len(reply.field) : reply.field[i] \notin {"\n", "\r"}
    THEN TrigAtAttn(stod(reply.field), voltage, TrigWrites(1, <<>>, oks))
    ELSE [sent |-> <<>>, ret |-> FALSE, raised |-> FALSE, level |-> NoLevel]

(***************************************************************************)
(* The sweep: the next frequency and the completion test.                  *)
(***************************************************************************)
\* frequencies are given in units of 0.01 Hz; the double of one is the one
\* a literal or std::stod gives
FREQ_UNIT == 10 ^ 2
FreqD(x) ==
    IF x.k = "fin" THEN DblOfRatio(x.v, FREQ_UNIT)
    ELSE IF x.k = "pinf" THEN DPInf
    ELSE IF x.k = "ninf" THEN DNInf ELSE DNaN

\* exp(log(10.0) / Npoints) as the C library returns it: 10.000000000000002,
\* 3.1622776601683795, 2.154434690031884, ..., 1.0009214583192958
Pow10Root(Npoints) ==
    CASE Npoints = 1    -> Dbl(1, <<1, 0, 0, 1280>>, -49)
      [] Npoints = 2    -> Dbl(1, <<6995, 11113, 1411, 1619>>, -51)
      [] Npoints = 3    -> Dbl(1, <<12367, 1249, 1156, 1103>>, -51)
      [] Npoints = 4    -> Dbl(1, <<1807, 12625, 15697, 1820>>, -52)
      [] Npoints = 5    -> Dbl(1, <<8275, 6993, 15247, 1622>>, -52)
      [] Npoints = 6    -> Dbl(1, <<14592, 5857, 433, 1503>>, -52)
      [] Npoints = 7    -> Dbl(1, <<6662, 657, 13818, 1422>>, -52)
      [] Npoints = 8    -> Dbl(1, <<324, 1770, 8617, 1365>>, -52)
      [] Npoints = 9    -> Dbl(1, <<8448, 11545, 8959, 1322>>, -52)
      [] Npoints = 10   -> Dbl(1, <<9732, 9200, 2287, 1289>>, -52)
      [] Npoints = 11   -> Dbl(1, <<9340, 696, 7128, 1262>>, -52)
      [] Npoints = 12   -> Dbl(1, <<9689, 3584, 9901, 1240>>, -52)
      [] Npoints = 13   -> Dbl(1, <<1666, 9401, 7000, 1222>>, -52)
      [] Npoints = 14   -> Dbl(1, <<4876, 16383, 967, 1207>>, -52)
      [] Npoints = 15   -> Dbl(1, <<2937, 12224, 14685, 1193>>, -52)
      [] Npoints = 16   -> Dbl(1, <<1254, 12944, 8138, 1182>>, -52)
      [] Npoints = 20   -> Dbl(1, <<1078, 15791, 15513, 1148>>, -52)
      [] Npoints = 25   -> Dbl(1, <<9362, 8781, 13003, 1122>>, -52)
      [] Npoints = 50   -> Dbl(1, <<8864, 13605, 4253, 1072>>, -52)
      [] Npoints = 100  -> Dbl(1, <<9772, 9220, 13959, 1047>>, -52)
      [] Npoints = 2500 -> Dbl(1, <<2362, 8278, 15459, 1024>>, -52)

\* f * exp(log(10.0) / Npoints)  (FreqResp.cpp:449); Npoints = 0 divides by
\* zero, exp(+inf) is +inf
LogStep(x, Npoints) ==
    IF Npoints = 0 THEN fMul(x, DPInf) ELSE fMul(x, Pow10Root(Npoints))

\* (fStop - fStart) / (Npoints - 1)  (FreqResp.cpp:457).  Npoints is an
\* unsigned int: for Npoints = 0 the divisor is 2^32 - 1 = 65535 * 65537
LinIncrement(d, Npoints) ==
    fDivU(d, IF Npoints = 0 THEN <<65535, 65537>> ELSE <<Npoints - 1>>)

\* f + (fStop - fStart) / (Npoints - 1)  (FreqResp.cpp:457)
LinStep(x, fr) ==
    fAdd(x, LinIncrement(fSub(FreqD(fr.fStop), FreqD(fr.fStart)), fr.Npoints))

NextFreq(x, fr) ==
    IF fr.sweep = "LOG" THEN LogStep(x, fr.Npoints)
    ELSE IF fr.sweep = "LIN" THEN LinStep(x, fr)
    ELSE x

\* f > FREQ_FUDGE * freq.fStop  (FreqResp.cpp:35, 452, 460)
FREQ_FUDGE == DblOfRatio(FUDGE_NUM, FUDGE_DEN)
PastStop(x, fr) == fLT(fMul(FREQ_FUDGE, FreqD(fr.fStop)), x)

\* completed after the step to the frequency nf (FreqResp.cpp:447-467)
Completes(nf, fr) ==
    IF fr.sweep = "LOG" \/ fr.sweep = "LIN" THEN PastStop(nf, fr) ELSE TRUE

\* completed after the step (FreqResp.cpp:447-467)
StepCompletes(x, fr) == Completes(NextFreq(x, fr), fr)

(***************************************************************************)
(* Init's configuration.  The arguments of Init are one record:            *)
(*   freq = [fStart, fStop, sweep, Npoints], stim = [ch, vtStim, vstim,    *)
(*   vdc], input/output = [ch, atten], trig = [ch, vTrig], meas = [vtMeas].*)
(* Coupling, trigger edge, time convention and dwell do not bear on the    *)
(* properties checked here and are left out.                               *)
(***************************************************************************)
\* A valid configuration: a linear sweep of 3 points from 100 Hz to 1 kHz at
\* 1 V, the channels, attenuations, trigger level and measurement as
\* MeasureResponseParse sets them when no option is given.
RefCfg ==
    [fStart |-> Fin(10000), fStop |-> Fin(100000), sweep |-> "LIN", Npoints |-> 3,
     vstim  |-> Fin(2000),  vdc   |-> Fin(0),
     inCh   |-> 1, inAtten |-> 10, outCh |-> 2, outAtten |-> 10,
     vTrig  |-> Fin(0), vtMeas |-> "VPP"]

CfgFields == DOMAIN RefCfg

\* The values Init is called with, per field.  Npoints is an unsigned int
\* (FreqResp.h:42) that Init does not test: every value of it is accepted, 0
\* as well.  From fStart = 999 Hz the three-point sweep to 1 kHz steps by
\* 0.5 Hz and takes a sample at 1000.5 Hz, between fStop and 1.001 fStop.
CfgValues ==
    [fStart  |-> {Fin(10000), Fin(99900), Fin(0), NaN},
     fStop   |-> {Fin(100000), Fin(10000), NaN},
     sweep   |-> {"LIN", "LOG"},
     Npoints |-> {0, 1, 2, 3},
     vstim   |-> {Fin(2000), Fin(0), NaN, PInf, NInf},
     vdc     |-> {Fin(0), NaN, PInf},
     inCh    |-> {1, 2, 5},
     inAtten |-> {10, 1},
     outCh   |-> {2, 7},
     outAtten|-> {10},
     vTrig   |-> {Fin(0), NaN, NInf},
     vtMeas  |-> {"VPP", "VPK"}]

\* the configurations that depart from RefCfg in one field at most
OneOff ==
    {RefCfg} \cup UNION { { [RefCfg EXCEPT ![fld] = val] : val \in CfgValues[fld] }
                          : fld \in CfgFields }

\* values the sanity checks of Init reject, for one field of each group
BadValues ==
    [fStop |-> {Fin(10000)}, vstim |-> {Fin(0), NInf}, vTrig |-> {NaN}]

\* the configurations with a rejected value in each of two groups
TwoBad ==
    UNION { UNION { { [RefCfg EXCEPT ![f1] = v1, ![f2] = v2] :
                        v1 \in BadValues[f1], v2 \in BadValues[f2] }
                    : f2 \in DOMAIN BadValues \ {f1} }
            : f1 \in DOMAIN BadValues }

\* a rejected value in every group
AllBad == [RefCfg EXCEPT !.fStart = NaN, !.vdc = NaN, !.vTrig = NaN]

Cfgs == OneOff \cup TwoBad \cup {AllBad}

FreqOf(c)   == [fStart |-> c.fStart, fStop |-> c.fStop, sweep |-> c.sweep, Npoints |-> c.Npoints]
StimOf(c)   == [vstim |-> c.vstim, vdc |-> c.vdc]
InputOf(c)  == [ch |-> c.inCh, atten |-> c.inAtten]
OutputOf(c) == [ch |-> c.outCh, atten |-> c.outAtten]
TrigOf(c)   == [vTrig |-> c.vTrig]
MeasOf(c)   == [vtMeas |-> c.vtMeas]

\* The sanity checks of Init (FreqResp.cpp:151-164): a later check overrides
\* the status of an earlier one.
FreqInvalid(fr) == \/ isnan(fr.fStart) \/ isnan(fr.fStop)
                   \/ dLE(fr.fStart, Fin(0))
                   \/ dLE(fr.fStop, fr.fStart)
StimInvalid(st) == \/ isnan(st.vdc) \/ isnan(st.vstim)
                   \/ dLE(st.vstim, Fin(0))
TrigInvalid(tr) == isnan(tr.vTrig)

SanityCheck(c) ==
    LET r1 == IF FreqInvalid(FreqOf(c)) THEN FRRET_INVALID_FREQUENCY ELSE FRRET_SUCCESS
        r2 == IF StimInvalid(StimOf(c)) THEN FRRET_INVALID_STIM ELSE r1
    IN  IF TrigInvalid(TrigOf(c)) THEN FRRET_INVALID_TRIG ELSE r2

\* the switch statements of Init (FreqResp.cpp:220-250)
InputChannel(ch)  == IF ch \in {1, 2, 3, 4} THEN ch ELSE 1
OutputChannel(ch) == IF ch \in {1, 2, 3, 4} THEN ch ELSE 2

\* avMeasure as a count of halves (FreqResp.cpp:331-339)
AvMeasureOf(vt) == IF vt = "VPP" THEN 2 ELSE 1

(***************************************************************************)
(* The oscilloscope as the program sees it.                                *)
(***************************************************************************)
Channels == 1 .. 4

\* after SetupOscilloscopeDefault (Oscilloscope.cpp:432-443): 10x, 1 V/div
ScopeDefault == [c \in Channels |-> [vdiv |-> VOLT_1V, atten |-> 10]]

\* SetChannelAtten then SetChannelVoltsEx(ch, 1.0, 0.0)  (FreqResp.cpp:269-280,
\* Oscilloscope.cpp:666-682)
SetChannelVoltsEx(chst, vdiv) ==
    IF vdiv > 0 /\ vdiv >= chst.atten * VoltagePairs1X[1]
                /\ vdiv <= chst.atten * VoltagePairs1X[N_VOLTAGE_PAIRS]
    THEN [chst EXCEPT !.vdiv = vdiv] ELSE chst

ConfigureChannel(sc, ch, atten) ==
    [sc EXCEPT ![ch] = SetChannelVoltsEx([@ EXCEPT !.atten = IF atten = 10 THEN 10 ELSE 1],
                                         VOLT_1V)]

\* FreqResp::MeasureAndScaleInput on a channel state, the cached scale and the
\* peak-to-peak reading: the channel, the scale and the applied adjustment
Adjusted(a) == [ch |-> a.ch, scale |-> a.scale, adjust |-> a.ret]
ScaleInput(chst, scale, req) ==
    IF req = 0 THEN [ch |-> chst, scale |-> scale, adjust |-> 0]
    ELSE Adjusted(AdjustChannelVolts(chst, req))
MeasureAndScaleInput(chst, scale, mag_pkpk) ==
    ScaleInput(chst, scale, SeekRequest(mag_pkpk, scale.pp))

(***************************************************************************)
(* The readings of one per-frequency measurement.  The signal is constant  *)
(* while MeasureFreq runs: pkIn/pkOut are the PKPK readings, amplIn and    *)
(* amplOut the AMPL readings of the input and the output channel, delay is *)
(* what MeasureDelay returns at the end of the loop: a time, or Raised     *)
(* when std::stod throws on the reply.                                     *)
(***************************************************************************)
Reading(pi, po, ai, ao) ==
    [pkIn |-> pi, pkOut |-> po, amplIn |-> ai, amplOut |-> ao, delay |-> TFin(0, 0)]

\* the reply "-" to a query: the pattern of Measure and MeasureDelay lets it
\* through and std::stod finds no number in it
NoNumber == [ok |-> TRUE, header |-> "good", field |-> <<"-">>]

\* a signal of 4 V peak to peak on both channels: in range at 1 V/div
QuietSig == Reading(Fin(8000), Fin(8000), Fin(8000), Fin(8000))
\* an input of 15 mV peak to peak: the input channel steps down to its range
LowSig   == Reading(Fin(30), Fin(8000), Fin(30), Fin(8000))
\* the same signal as LowSig, and "-" in reply to the delay query
NoDelaySig == [LowSig EXCEPT !.delay = MeasureDelay(NoNumber)]
Sigs     == {QuietSig, NoDelaySig}

\* MeasureDelay at line 528 or 530 throws
DelayRaises == Thrown(sig.delay)

\* peak-to-peak readings from no signal to beyond the largest range, and NaN
PkReadings == {Fin(0), Fin(30), Fin(8000), Fin(100000), Fin(2000000), NaN}
SigsRange  == { Reading(pi, po, Fin(8000), Fin(8000)) : pi \in PkReadings, po \in PkReadings }

NoScale  == [vdiv |-> 0, offset |-> 0, pp |-> 0, max |-> 0, min |-> 0]
NoCall   == [atten |-> 0, old |-> 0, adjust |-> 0, ret |-> 0, new |-> 0]

\* the caller's sample after a call that did not write it
NoResult == [freq |-> DZero, mag_in |-> DZero, mag_out |-> DZero, time |-> TFin(0, 0)]
\* the call wrote the sample of its caller
resultSet == result # NoResult

(***************************************************************************)
(* The state after construction (FreqResp.cpp:49-55).  The members Init    *)
(* assigns are never read before Init has run; they start at fixed values. *)
(***************************************************************************)
Init ==
    /\ initialized = FALSE /\ completed = FALSE /\ data = <<>>
    /\ freq = FreqOf(RefCfg) /\ stim = StimOf(RefCfg)
    /\ input = InputOf(RefCfg) /\ output = OutputOf(RefCfg)
    /\ trig = TrigOf(RefCfg) /\ meas = MeasOf(RefCfg)
    /\ f = DZero /\ osChannelInput = 1 /\ osChannelOutput = 2 /\ avMeasure = 2
    /\ osScaleInput = NoScale /\ osScaleOutput = NoScale
    /\ stimAttached = FALSE /\ oscAttached = FALSE
    /\ scope = ScopeDefault /\ sig = QuietSig
    /\ pc = "idle" /\ caller = "none"
    /\ adjust_in = 0 /\ adjust_out = 0 /\ alternate_count = 0 /\ rounds = 0
    /\ lastOp = "none" /\ lastRet = FRRET_SUCCESS
    /\ ioSent = FALSE /\ attachTried = FALSE /\ result = NoResult /\ delayReads = 0
    /\ adjCall = NoCall /\ tbCall = NoTb /\ ioCall = NoIo /\ sock = NoSock

(***************************************************************************)
(* MeasureFreq.                                                            *)
(***************************************************************************)
\* entering MeasureFreq (FreqResp.cpp:488-508): timebase and stimulus
\* frequency are written, the dwell is slept, the loop's locals start at 0
EnterMeasureFreq(s) ==
    /\ pc' = "loop"
    /\ adjust_in' = 0 /\ adjust_out' = 0 /\ alternate_count' = 0 /\ rounds' = 0
    /\ sig' = s
    /\ ioSent' = TRUE /\ result' = NoResult /\ delayReads' = 0

\* one round of the do-while loop (FreqResp.cpp:509-534)
RoundResult(sc2, mi, mo, alt) ==
    [scope |-> sc2, scaleIn |-> mi.scale, scaleOut |-> mo.scale,
     adjIn |-> mi.adjust, adjOut |-> mo.adjust, alt |-> alt,
     done |-> (mi.adjust = 0 /\ mo.adjust = 0) \/ alt >= HUNT_LIMIT]

RoundOutput(sc1, mi, mo) ==
    RoundResult([sc1 EXCEPT ![osChannelOutput] = mo.ch], mi, mo,
                IF adjust_in * mi.adjust < 0 \/ adjust_out * mo.adjust < 0
                THEN alternate_count + 1 ELSE alternate_count)

RoundInput(sc1, mi) ==
    RoundOutput(sc1, mi,
                MeasureAndScaleInput(sc1[osChannelOutput], osScaleOutput, sig.pkOut))

RoundScope(mi) == RoundInput([scope EXCEPT ![osChannelInput] = mi.ch], mi)

Round ==
    RoundScope(MeasureAndScaleInput(scope[osChannelInput], osScaleInput, sig.pkIn))

\* avMeasure * mag (FreqResp.cpp:515-516), avMeasure given in halves
Mag(x, av) == fMul(DblOfRatio(av, 2), VoltD(x))

\* the sample MeasureFreq returns (FreqResp.cpp:536-544), without the gain
SampleOf(x, s, av) ==
    [freq |-> x, mag_in |-> Mag(s.amplIn, av), mag_out |-> Mag(s.amplOut, av),
     time |-> s.delay]

\* MeasureDelay throws in the last round r (Oscilloscope.cpp:1176): the
\* exception unwinds MeasureFreq and MeasureNext, Sweep or Init ahead of
\* every later statement; nothing in the program catches it
LoopExitRaised(r) ==
    /\ scope' = r.scope
    /\ osScaleInput' = r.scaleIn /\ osScaleOutput' = r.scaleOut
    /\ adjust_in' = 0 /\ adjust_out' = 0 /\ alternate_count' = 0 /\ rounds' = 0
    /\ pc' = "idle" /\ caller' = "none"
    /\ lastRet' = RAISED
    /\ sig' = QuietSig
    /\ delayReads' = delayReads + 1
    /\ UNCHANGED <<initialized, completed, data, freq, stim, input, output, trig, meas,
                   f, osChannelInput, osChannelOutput, avMeasure>>
    /\ UNCHANGED <<stimAttached, oscAttached, lastOp, ioSent, result, attachTried,
                   adjCall, tbCall, ioCall, sock>>

Bump(n) == IF n < MaxRounds THEN n + 1 ELSE n

\* a round that stays in the loop
LoopAgain ==
    /\ pc = "loop"
    /\ \E r \in {Round} :
        /\ ~r.done
        /\ scope' = r.scope
        /\ osScaleInput' = r.scaleIn /\ osScaleOutput' = r.scaleOut
        /\ adjust_in' = r.adjIn /\ adjust_out' = r.adjOut
        /\ alternate_count' = r.alt
        /\ rounds' = Bump(rounds)
        /\ UNCHANGED <<initialized, completed, data, freq, stim, input, output, trig, meas,
                       f, osChannelInput, osChannelOutput, avMeasure>>
        /\ UNCHANGED <<stimAttached, oscAttached, sig, pc, caller, obsVars, adjCall, tbCall, ioCall, sock>>

\* the last round under Init, with the warm-up sample kept and the cursor
\* stepped as MeasureNext does
LoopExitInitKeeps ==
    /\ pc = "loop" /\ caller = "Init"
    /\ \E r \in {Round} :
        /\ r.done
        /\ IF DelayRaises THEN LoopExitRaised(r)
           ELSE
            /\ scope' = r.scope
            /\ osScaleInput' = r.scaleIn /\ osScaleOutput' = r.scaleOut
            /\ adjust_in' = 0 /\ adjust_out' = 0 /\ alternate_count' = 0 /\ rounds' = 0
            /\ pc' = "idle" /\ caller' = "none"
            /\ lastRet' = FRRET_SUCCESS
            /\ data' = Append(data, SampleOf(f, sig, avMeasure))
            /\ f' = NextFreq(f, freq)
            /\ UNCHANGED <<initialized, completed, freq, stim, input, output, trig, meas,
                           osChannelInput, osChannelOutput, avMeasure>>
            /\ sig' = QuietSig
            /\ delayReads' = delayReads + 1
            /\ UNCHANGED <<stimAttached, oscAttached, lastOp, ioSent, result, attachTried,
                           adjCall, tbCall, ioCall, sock>>

\* the last round under Init (FreqResp.cpp:372-375): MeasureDelay is read;
\* the warm-up sample is dropped and Init returns, or the exception of
\* MeasureDelay leaves Init, which has set initialized at line 353
LoopExitInit ==
    /\ pc = "loop" /\ caller = "Init"
    /\ \E r \in {Round} :
        /\ r.done
        /\ IF DelayRaises THEN LoopExitRaised(r)
           ELSE
            /\ scope' = r.scope
            /\ osScaleInput' = r.scaleIn /\ osScaleOutput' = r.scaleOut
            /\ adjust_in' = 0 /\ adjust_out' = 0 /\ alternate_count' = 0 /\ rounds' = 0
            /\ pc' = "idle" /\ caller' = "none"
            /\ lastRet' = FRRET_SUCCESS
            /\ UNCHANGED <<initialized, completed, data, freq, stim, input, output, trig, meas,
                           f, osChannelInput, osChannelOutput, avMeasure>>
            /\ sig' = QuietSig
            /\ delayReads' = delayReads + 1
            /\ UNCHANGED <<stimAttached, oscAttached, lastOp, ioSent, result, attachTried,
                           adjCall, tbCall, ioCall, sock>>

\* the last round under MeasureNext (FreqResp.cpp:439-471): MeasureDelay is
\* read; the sample is handed to the caller and appended and the cursor
\* steps, or the exception of MeasureDelay leaves MeasureNext ahead of that
LoopExitMeasureNext ==
    /\ pc = "loop" /\ caller = "MeasureNext"
    /\ \E r \in {Round} :
        /\ r.done
        /\ IF DelayRaises THEN LoopExitRaised(r)
           ELSE
            /\ scope' = r.scope
            /\ osScaleInput' = r.scaleIn /\ osScaleOutput' = r.scaleOut
            /\ adjust_in' = 0 /\ adjust_out' = 0 /\ alternate_count' = 0 /\ rounds' = 0
            /\ pc' = "idle" /\ caller' = "none"
            /\ data' = Append(data, SampleOf(f, sig, avMeasure))
            /\ f' = NextFreq(f, freq)
            /\ completed' = Completes(f', freq)
            /\ lastRet' = IF completed' THEN FRRET_COMPLETE ELSE FRRET_SUCCESS
            /\ UNCHANGED <<initialized, freq, stim, input, output, trig, meas,
                           osChannelInput, osChannelOutput, avMeasure>>
            /\ result' = SampleOf(f, sig, avMeasure) /\ delayReads' = delayReads + 1
            /\ sig' = QuietSig
            /\ UNCHANGED <<stimAttached, oscAttached, lastOp, ioSent, attachTried,
                           adjCall, tbCall, ioCall, sock>>

\* the last round of one MeasureNext under Sweep (FreqResp.cpp:400-409): the
\* sample goes to Sweep's local; Sweep returns when completed, and otherwise
\* calls MeasureNext again, which enters MeasureFreq with the readings s; the
\* exception of MeasureDelay leaves MeasureNext and Sweep
LoopExitSweep(s) ==
    /\ pc = "loop" /\ caller = "Sweep"
    /\ \E r \in {Round} :
        /\ r.done
        /\ IF DelayRaises THEN s = QuietSig /\ LoopExitRaised(r)
           ELSE
            /\ scope' = r.scope
            /\ osScaleInput' = r.scaleIn /\ osScaleOutput' = r.scaleOut
            /\ data' = Append(data, SampleOf(f, sig, avMeasure))
            /\ f' = NextFreq(f, freq)
            /\ completed' = Completes(f', freq)
            /\ adjust_in' = 0 /\ adjust_out' = 0 /\ alternate_count' = 0 /\ rounds' = 0
            /\ IF completed'
               THEN /\ pc' = "idle" /\ caller' = "none"
                    /\ lastRet' = FRRET_COMPLETE
                    /\ s = QuietSig /\ sig' = QuietSig
                    /\ delayReads' = delayReads + 1
               ELSE /\ Len(data) + 1 < MaxData
                    /\ pc' = "loop" /\ caller' = "Sweep"
                    /\ lastRet' = lastRet
                    /\ sig' = s
                    /\ delayReads' = 0
            /\ UNCHANGED <<initialized, freq, stim, input, output, trig, meas,
                           osChannelInput, osChannelOutput, avMeasure>>
            /\ UNCHANGED <<stimAttached, oscAttached, lastOp, ioSent, result, attachTried,
                           adjCall, tbCall, ioCall, sock>>

(***************************************************************************)
(* FreqResp::Init (FreqResp.cpp:129-376), one action per return path.      *)
(***************************************************************************)
\* Init with the parameters stored ahead of the test of line 131, restarting
\* the sweep of a session that is in use
InitAlreadyRestarts ==
    /\ pc = "idle" /\ initialized
    /\ completed' = FALSE /\ f' = FreqD(freq.fStart)
    /\ lastOp' = "Init" /\ lastRet' = FRRET_ALREADY_INITIALIZED
    /\ ioSent' = FALSE /\ attachTried' = FALSE /\ result' = NoResult /\ delayReads' = 0
    /\ UNCHANGED <<initialized, data, freq, stim, input, output, trig, meas,
                   osChannelInput, osChannelOutput, avMeasure, osScaleInput, osScaleOutput>>
    /\ UNCHANGED <<instrVars, loopVars, adjCall, tbCall, ioCall, sock>>

\* line 131: already initialized
InitAlready ==
    /\ pc = "idle" /\ initialized
    /\ lastOp' = "Init" /\ lastRet' = FRRET_ALREADY_INITIALIZED
    /\ ioSent' = FALSE /\ attachTried' = FALSE /\ result' = NoResult /\ delayReads' = 0
    /\ UNCHANGED <<sessVars, instrVars, loopVars, adjCall, tbCall, ioCall, sock>>

StoreCfg(c) ==
    /\ freq' = FreqOf(c) /\ stim' = StimOf(c)
    /\ input' = InputOf(c) /\ output' = OutputOf(c)
    /\ trig' = TrigOf(c) /\ meas' = MeasOf(c)

\* Init with the sanity checks read after the stimulus generator is attached
InitInvalidAttaches(c) ==
    /\ pc = "idle" /\ ~initialized
    /\ SanityCheck(c) < FRRET_SUCCESS
    /\ StoreCfg(c)
    /\ stimAttached' = TRUE
    /\ lastOp' = "Init" /\ lastRet' = SanityCheck(c)
    /\ ioSent' = TRUE /\ attachTried' = TRUE /\ result' = NoResult /\ delayReads' = 0
    /\ UNCHANGED <<initialized, completed, data, f, osChannelInput, osChannelOutput,
                   avMeasure, osScaleInput, osScaleOutput>>
    /\ UNCHANGED <<oscAttached, scope, sig, loopVars, adjCall, tbCall, ioCall, sock>>

\* lines 139-167: the parameters are stored, a sanity check fails
InitInvalid(c) ==
    /\ pc = "idle" /\ ~initialized
    /\ SanityCheck(c) < FRRET_SUCCESS
    /\ StoreCfg(c)
    /\ lastOp' = "Init" /\ lastRet' = SanityCheck(c)
    /\ ioSent' = FALSE /\ attachTried' = FALSE /\ result' = NoResult /\ delayReads' = 0
    /\ UNCHANGED <<initialized, completed, data, f, osChannelInput, osChannelOutput,
                   avMeasure, osScaleInput, osScaleOutput>>
    /\ UNCHANGED <<instrVars, loopVars, adjCall, tbCall, ioCall, sock>>

\* Init without the return of lines 211-212: the oscilloscope is attached and
\* set up although the stimulus failed
InitNoStimulusGoesOn(c, connected) ==
    /\ pc = "idle" /\ ~initialized
    /\ SanityCheck(c) >= FRRET_SUCCESS
    /\ StoreCfg(c)
    /\ avMeasure' = 2
    /\ stimAttached' = connected
    /\ oscAttached' = TRUE
    /\ lastOp' = "Init" /\ lastRet' = FRRET_INIT_SINEGEN
    /\ ioSent' = TRUE /\ attachTried' = TRUE /\ result' = NoResult /\ delayReads' = 0
    /\ UNCHANGED <<initialized, completed, data, f, osChannelInput, osChannelOutput,
                   osScaleInput, osScaleOutput>>
    /\ UNCHANGED <<scope, sig, loopVars, adjCall, tbCall, ioCall, sock>>

\* lines 200-212: stimulus.Attach fails, either in Socket_Instrument::Attach
\* (no connection) or in SetupSineGeneratorDefault after the connection was
\* made (part_002:60-68, part_005:138-174)
InitNoStimulus(c, connected) ==
    /\ pc = "idle" /\ ~initialized
    /\ SanityCheck(c) >= FRRET_SUCCESS
    /\ StoreCfg(c)
    /\ avMeasure' = 2
    /\ stimAttached' = connected
    /\ lastOp' = "Init" /\ lastRet' = FRRET_INIT_SINEGEN
    /\ ioSent' = connected /\ attachTried' = TRUE /\ result' = NoResult /\ delayReads' = 0
    /\ UNCHANGED <<initialized, completed, data, f, osChannelInput, osChannelOutput,
                   osScaleInput, osScaleOutput>>
    /\ UNCHANGED <<oscAttached, scope, sig, loopVars, adjCall, tbCall, ioCall, sock>>

\* lines 217, 341-347: the stimulus is attached and set up, oscope.Attach fails
InitNoScope(c) ==
    /\ pc = "idle" /\ ~initialized
    /\ SanityCheck(c) >= FRRET_SUCCESS
    /\ StoreCfg(c)
    /\ avMeasure' = 2
    /\ stimAttached' = TRUE
    /\ oscAttached' = FALSE
    /\ lastOp' = "Init" /\ lastRet' = FRRET_INIT_OSCILLOSCOPE
    /\ ioSent' = TRUE /\ attachTried' = TRUE /\ result' = NoResult /\ delayReads' = 0
    /\ UNCHANGED <<initialized, completed, data, f, osChannelInput, osChannelOutput,
                   osScaleInput, osScaleOutput>>
    /\ UNCHANGED <<scope, sig, loopVars, adjCall, tbCall, ioCall, sock>>

\* the oscilloscope after Attach and the channel set-up of lines 268-280
ScopeAfterInit(c) ==
    ConfigureChannel(
        ConfigureChannel(ScopeDefault, InputChannel(c.inCh), c.inAtten),
        OutputChannel(c.outCh), c.outAtten)

\* lines 217-373: both instruments attach; the session becomes initialized
\* and the warm-up measurement starts with the readings s
InitOk(c, s) ==
    /\ pc = "idle" /\ ~initialized
    /\ SanityCheck(c) >= FRRET_SUCCESS
    /\ StoreCfg(c)
    /\ stimAttached' = TRUE /\ oscAttached' = TRUE
    /\ osChannelInput' = InputChannel(c.inCh)
    /\ osChannelOutput' = OutputChannel(c.outCh)
    /\ avMeasure' = AvMeasureOf(c.vtMeas)
    /\ scope' = ScopeAfterInit(c)
    /\ initialized' = TRUE
    /\ osScaleOutput' = AdjustChannelVolts(ScopeAfterInit(c)[OutputChannel(c.outCh)], 0).scale
    /\ osScaleInput' = AdjustChannelVolts(ScopeAfterInit(c)[InputChannel(c.inCh)], 0).scale
    /\ f' = FreqD(c.fStart)
    /\ EnterMeasureFreq(s)
    /\ caller' = "Init"
    /\ lastOp' = "Init" /\ lastRet' = FRRET_SUCCESS
    /\ attachTried' = TRUE
    /\ UNCHANGED <<completed, data, adjCall, tbCall, ioCall, sock>>

(***************************************************************************)
(* FreqResp::MeasureNext (FreqResp.cpp:423-475).                           *)
(***************************************************************************)
MeasureNextNotInit ==
    /\ pc = "idle" /\ ~initialized
    /\ lastOp' = "MeasureNext" /\ lastRet' = FRRET_NOT_INITIALIZED
    /\ ioSent' = FALSE /\ attachTried' = FALSE /\ result' = NoResult /\ delayReads' = 0
    /\ UNCHANGED <<sessVars, instrVars, loopVars, adjCall, tbCall, ioCall, sock>>

MeasureNextCompleted ==
    /\ pc = "idle" /\ initialized /\ completed
    /\ lastOp' = "MeasureNext" /\ lastRet' = FRRET_COMPLETE
    /\ ioSent' = FALSE /\ attachTried' = FALSE /\ result' = NoResult /\ delayReads' = 0
    /\ UNCHANGED <<sessVars, instrVars, loopVars, adjCall, tbCall, ioCall, sock>>

\* lines 423-439: the session is ready, MeasureFreq is entered
MeasureNextBegin(s) ==
    /\ pc = "idle" /\ initialized /\ ~completed
    /\ EnterMeasureFreq(s)
    /\ caller' = "MeasureNext"
    /\ lastOp' = "MeasureNext" /\ attachTried' = FALSE
    /\ UNCHANGED <<sessVars, stimAttached, oscAttached, scope, lastRet, adjCall, tbCall, ioCall, sock>>

\* the same, while data holds fewer than MaxData samples
MeasureNextStart(s) ==
    /\ Len(data) < MaxData
    /\ MeasureNextBegin(s)

(***************************************************************************)
(* FreqResp::Sweep (FreqResp.cpp:389-410).                                 *)
(***************************************************************************)
\* Sweep with the restart of lines 397-398 ahead of the test of line 391
SweepNotInitRestarts ==
    /\ pc = "idle" /\ ~initialized
    /\ completed' = FALSE /\ f' = FreqD(freq.fStart)
    /\ lastOp' = "Sweep" /\ lastRet' = FRRET_NOT_INITIALIZED
    /\ ioSent' = FALSE /\ attachTried' = FALSE /\ result' = NoResult /\ delayReads' = 0
    /\ UNCHANGED <<initialized, data, freq, stim, input, output, trig, meas,
                   osChannelInput, osChannelOutput, avMeasure, osScaleInput, osScaleOutput>>
    /\ UNCHANGED <<instrVars, loopVars, adjCall, tbCall, ioCall, sock>>

SweepNotInit ==
    /\ pc = "idle" /\ ~initialized
    /\ lastOp' = "Sweep" /\ lastRet' = FRRET_NOT_INITIALIZED
    /\ ioSent' = FALSE /\ attachTried' = FALSE /\ result' = NoResult /\ delayReads' = 0
    /\ UNCHANGED <<sessVars, instrVars, loopVars, adjCall, tbCall, ioCall, sock>>

SweepStart(s) ==
    /\ pc = "idle" /\ initialized
    /\ Len(data) < MaxData
    /\ completed' = FALSE
    /\ f' = FreqD(freq.fStart)
    /\ EnterMeasureFreq(s)
    /\ caller' = "Sweep"
    /\ lastOp' = "Sweep" /\ attachTried' = FALSE
    /\ UNCHANGED <<initialized, data, freq, stim, input, output, trig, meas,
                   osChannelInput, osChannelOutput, avMeasure, osScaleInput, osScaleOutput>>
    /\ UNCHANGED <<stimAttached, oscAttached, scope, lastRet, adjCall, tbCall, ioCall, sock>>

\* a Close that leaves the completed flag as it is
CloseKeepsCompleted ==
    /\ pc = "idle"
    /\ oscAttached' = FALSE /\ stimAttached' = FALSE
    /\ data' = <<>>
    /\ initialized' = FALSE
    /\ lastOp' = "Close" /\ lastRet' = FRRET_SUCCESS
    /\ ioSent' = FALSE /\ attachTried' = FALSE /\ result' = NoResult /\ delayReads' = 0
    /\ UNCHANGED <<completed, freq, stim, input, output, trig, meas, f, osChannelInput,
                   osChannelOutput, avMeasure, osScaleInput, osScaleOutput>>
    /\ UNCHANGED <<scope, sig, loopVars, adjCall, tbCall, ioCall, sock>>

(***************************************************************************)
(* FreqResp::Close (FreqResp.cpp:97-111).                                  *)
(***************************************************************************)
\* Close that releases the instruments of an initialized session only
CloseInitialized ==
    /\ pc = "idle"
    /\ oscAttached' = (IF initialized THEN FALSE ELSE oscAttached)
    /\ stimAttached' = (IF initialized THEN FALSE ELSE stimAttached)
    /\ data' = <<>>
    /\ initialized' = FALSE /\ completed' = FALSE
    /\ lastOp' = "Close" /\ lastRet' = FRRET_SUCCESS
    /\ ioSent' = FALSE /\ attachTried' = FALSE /\ result' = NoResult /\ delayReads' = 0
    /\ UNCHANGED <<freq, stim, input, output, trig, meas, f, osChannelInput,
                   osChannelOutput, avMeasure, osScaleInput, osScaleOutput>>
    /\ UNCHANGED <<scope, sig, loopVars, adjCall, tbCall, ioCall, sock>>

Close ==
    /\ pc = "idle"
    /\ oscAttached' = FALSE /\ stimAttached' = FALSE
    /\ data' = <<>>
    /\ initialized' = FALSE /\ completed' = FALSE
    /\ lastOp' = "Close" /\ lastRet' = FRRET_SUCCESS
    /\ ioSent' = FALSE /\ attachTried' = FALSE /\ result' = NoResult /\ delayReads' = 0
    /\ UNCHANGED <<freq, stim, input, output, trig, meas, f, osChannelInput,
                   osChannelOutput, avMeasure, osScaleInput, osScaleOutput>>
    /\ UNCHANGED <<scope, sig, loopVars, adjCall, tbCall, ioCall, sock>>

(***************************************************************************)
(* The session driven by a caller: any configuration of Cfgs, the signals  *)
(* of Sigs.                                                                *)
(***************************************************************************)
Next ==
    \/ InitAlready
    \/ \E c \in Cfgs : InitInvalid(c)
    \/ \E c \in Cfgs, connected \in BOOLEAN : InitNoStimulus(c, connected)
    \/ \E c \in Cfgs : InitNoScope(c)
    \/ \E c \in Cfgs, s \in Sigs : InitOk(c, s)
    \/ MeasureNextNotInit
    \/ MeasureNextCompleted
    \/ \E s \in Sigs : MeasureNextStart(s)
    \/ SweepNotInit
    \/ \E s \in Sigs : SweepStart(s)
    \/ LoopAgain
    \/ LoopExitInit
    \/ LoopExitMeasureNext
    \/ \E s \in Sigs : LoopExitSweep(s)
    \/ Close

Spec == Init /\ [][Next]_vars

(***************************************************************************)
(* Oscilloscope::AdjustChannelVolts called directly: channel 1 starts at   *)
(* any tabulated range of either attenuation, the caller asks for any step *)
(* of MaxAdjust ranges at most.  adjCall keeps the call: the attenuation,  *)
(* the volts per division before and after, the step asked for and the     *)
(* value returned.                                                         *)
(***************************************************************************)
MaxAdjust == 4

InitAdjust ==
    /\ initialized = FALSE /\ completed = FALSE /\ data = <<>>
    /\ freq = FreqOf(RefCfg) /\ stim = StimOf(RefCfg)
    /\ input = InputOf(RefCfg) /\ output = OutputOf(RefCfg)
    /\ trig = TrigOf(RefCfg) /\ meas = MeasOf(RefCfg)
    /\ f = DZero /\ osChannelInput = 1 /\ osChannelOutput = 2 /\ avMeasure = 2
    /\ osScaleInput = NoScale /\ osScaleOutput = NoScale
    /\ stimAttached = FALSE /\ oscAttached = TRUE
    /\ \E atten \in {1, 10}, i \in 0 .. N_VOLTAGE_PAIRS - 1 :
           scope = [ScopeDefault EXCEPT ![1] = [vdiv |-> Volts(atten, i), atten |-> atten]]
    /\ sig = QuietSig
    /\ pc = "idle" /\ caller = "none"
    /\ adjust_in = 0 /\ adjust_out = 0 /\ alternate_count = 0 /\ rounds = 0
    /\ lastOp = "none" /\ lastRet = FRRET_SUCCESS
    /\ ioSent = FALSE /\ attachTried = FALSE /\ result = NoResult /\ delayReads = 0
    /\ adjCall = NoCall /\ tbCall = NoTb /\ ioCall = NoIo /\ sock = NoSock

\* oscope.AdjustChannelVolts(C1, adjust, scale)
AdjustCall(adjust) ==
    \E a \in {AdjustChannelVolts(scope[1], adjust)} :
        /\ scope' = [scope EXCEPT ![1] = a.ch]
        /\ adjCall' = [atten |-> scope[1].atten, old |-> scope[1].vdiv, adjust |-> adjust,
                       ret |-> a.ret, new |-> a.ch.vdiv]
        /\ ioSent' = TRUE
        /\ UNCHANGED <<sessVars, stimAttached, oscAttached, sig, loopVars,
                       lastOp, lastRet, attachTried, result, delayReads, tbCall, ioCall, sock>>

NextAdjust == \E adjust \in -MaxAdjust .. MaxAdjust : AdjustCall(adjust)

SpecAdjust == InitAdjust /\ [][NextAdjust]_vars

(***************************************************************************)
(* FreqResp::MeasureAndScaleInput called once and again on the input       *)
(* channel: the channel starts at any tabulated range of either            *)
(* attenuation with the cached scale read from it, and the peak-to-peak    *)
(* reading is any value next to a threshold of that range, zero, negative, *)
(* infinite or NaN.  adjCall keeps the step requested, the step applied    *)
(* and the volts per division before and after.                            *)
(***************************************************************************)
SeekReadings(pp) ==
    {Fin((t * pp) \div SEEK_DEN + d) : t \in {SEEK_HI, SEEK_LO, SEEK_MD}, d \in {-1, 0, 1}}
        \cup {Fin(0), Fin(-pp), NaN, PInf, NInf}

InitSeek ==
    /\ initialized = TRUE /\ completed = FALSE /\ data = <<>>
    /\ freq = FreqOf(RefCfg) /\ stim = StimOf(RefCfg)
    /\ input = InputOf(RefCfg) /\ output = OutputOf(RefCfg)
    /\ trig = TrigOf(RefCfg) /\ meas = MeasOf(RefCfg)
    /\ f = FreqD(RefCfg.fStart) /\ osChannelInput = 1 /\ osChannelOutput = 2 /\ avMeasure = 2
    /\ \E atten \in {1, 10}, i \in 0 .. N_VOLTAGE_PAIRS - 1 :
           /\ scope = [ScopeDefault EXCEPT ![1] = [vdiv |-> Volts(atten, i), atten |-> atten]]
           /\ osScaleInput = ReadScale(scope[1])
           /\ \E p \in SeekReadings(osScaleInput.pp) :
                  sig = Reading(p, Fin(8000), Fin(8000), Fin(8000))
    /\ osScaleOutput = ReadScale(ScopeDefault[2])
    /\ stimAttached = TRUE /\ oscAttached = TRUE
    /\ pc = "idle" /\ caller = "none"
    /\ adjust_in = 0 /\ adjust_out = 0 /\ alternate_count = 0 /\ rounds = 0
    /\ lastOp = "none" /\ lastRet = FRRET_SUCCESS
    /\ ioSent = FALSE /\ attachTried = FALSE /\ result = NoResult /\ delayReads = 0
    /\ adjCall = NoCall /\ tbCall = NoTb /\ ioCall = NoIo /\ sock = NoSock

\* MeasureAndScaleInput(oscope, osChannelInput, PKPK, osScaleInput, adjust_in)
SeekCall ==
    \E m \in {MeasureAndScaleInput(scope[osChannelInput], osScaleInput, sig.pkIn)} :
        /\ scope' = [scope EXCEPT ![osChannelInput] = m.ch]
        /\ osScaleInput' = m.scale
        /\ adjust_in' = m.adjust
        /\ adjCall' = [atten |-> scope[osChannelInput].atten,
                       old |-> scope[osChannelInput].vdiv,
                       adjust |-> SeekRequest(sig.pkIn, osScaleInput.pp),
                       ret |-> m.adjust, new |-> m.ch.vdiv]
        /\ ioSent' = TRUE
        /\ UNCHANGED <<initialized, completed, data, freq, stim, input, output, trig, meas,
                       f, osChannelInput, osChannelOutput, avMeasure, osScaleOutput>>
        /\ UNCHANGED <<stimAttached, oscAttached, sig, pc, caller, adjust_out,
                       alternate_count, rounds, lastOp, lastRet, attachTried, result, delayReads, tbCall, ioCall, sock>>

NextSeek == SeekCall

SpecSeek == InitSeek /\ [][NextSeek]_vars

(***************************************************************************)
(* Oscilloscope::SetTimebase(tcapture, delay) called again and again with  *)
(* any capture time of TbRequests, the write succeeding or failing.        *)
(* tbCall keeps the call: the capture time asked for, whether the write    *)
(* succeeded, the index picked and the value returned, and the capture     *)
(* time and the pick of the call before.                                   *)
(***************************************************************************)
\* 14 times a tabulated value, and a thousandth more
AroundEntry(i) ==
    {TFin(1000 * nTimeDivisions * TimeSec(i).v + d, TimeSec(i).e - 3) : d \in {0, 1}}

TbRequests ==
    UNION {AroundEntry(i) : i \in 0 .. nTimePairs - 1}
        \cup {TFin(0, 0), TFin(-1, 0), TFin(5, 3), TNaN, TPInf, TNInf}

SetTimebaseCall(tcapture, written) ==
    \E pick \in {SetTimebasePick(tcapture)} :
        /\ pc = "idle" /\ oscAttached
        /\ tbCall' = [tcapture |-> tcapture, written |-> written, pick |-> pick,
                      ret |-> SetTimebaseReturn(pick, written),
                      before |-> [tcapture |-> tbCall.tcapture, pick |-> tbCall.pick]]
        /\ ioSent' = TRUE
        /\ UNCHANGED <<sessVars, instrVars, loopVars,
                       lastOp, lastRet, attachTried, result, delayReads, adjCall, ioCall, sock>>

NextTimebase == \E t \in TbRequests, written \in BOOLEAN : SetTimebaseCall(t, written)

\* the oscilloscope as SetupOscilloscopeDefault leaves it, no call made yet
InitTimebase == InitAdjust /\ scope = ScopeDefault

SpecTimebase == InitTimebase /\ [][NextTimebase]_vars

(***************************************************************************)
(* SineGenerator::CoercePhase called with any phase of PhaseInputs.        *)
(* ioCall keeps the argument, the value returned and the value returned    *)
(* for that value.                                                         *)
(***************************************************************************)
MaxTurns == 2

PhaseInputs ==
    {TFin(45000 * m + d, -3) : m \in -8 * MaxTurns .. 8 * MaxTurns, d \in {-1, 0, 1}}
        \cup {TFin(370000, -3), TFin(-10000, -3)}
        \cup {TFin(1, PHASE_TINY), TFin(-1, PHASE_TINY), TNaN, TPInf, TNInf}

CoercePhaseCall(phase) ==
    /\ pc = "idle"
    /\ ioCall' = [op |-> "CoercePhase", phase |-> phase, ret |-> CoercePhase(phase),
                  again |-> CoercePhase(CoercePhase(phase))]
    /\ UNCHANGED <<sessVars, instrVars, loopVars, obsVars, adjCall, tbCall, sock>>

NextPhase == \E phase \in PhaseInputs : CoercePhaseCall(phase)

SpecPhase == InitTimebase /\ [][NextPhase]_vars

(***************************************************************************)
(* SineGenerator::SetChannel called with each parameter given or left at   *)
(* DEFAULT_PARAM (NaN), every write succeeding or failing.  ioCall keeps   *)
(* the parameters, the outcomes of the writes, the commands handed to      *)
(* Write and the value returned.                                           *)
(***************************************************************************)
SetChannelCall(freqArg, Vpp, Voffs, phase, oks) ==
    /\ pc = "idle"
    /\ \E r \in {SetChannel(freqArg, Vpp, Voffs, phase, oks)} :
           /\ ioCall' = [op |-> "SetChannel",
                         params |-> <<freqArg, Vpp, Voffs, phase>>, oks |-> oks,
                         sent |-> r.sent, ret |-> r.ret]
           /\ UNCHANGED <<sessVars, instrVars, loopVars, obsVars, adjCall, tbCall, sock>>

NextSetChannel ==
    \E freqArg \in {TNaN, TFin(1000, 0)}, Vpp \in {TNaN, TFin(1, 0)},
       Voffs \in {TNaN, TFin(0, 0)}, phase \in {TNaN, TFin(370000, -3)},
       oks \in [1 .. 4 -> BOOLEAN] :
        SetChannelCall(freqArg, Vpp, Voffs, phase, oks)

SpecSetChannel == InitTimebase /\ [][NextSetChannel]_vars

(***************************************************************************)
(* Oscilloscope::SetChannelVolts called on a channel of any attenuation    *)
(* with any VoltsPerDiv value of VdivArgs and an offset given or omitted   *)
(* (DEFAULT_PARAM, NaN), every write succeeding or failing.  ioCall keeps  *)
(* the channel before and after, the arguments, the commands and the value *)
(* returned.                                                               *)
(***************************************************************************)
\* UNSPEC, 500 uV, 5 mV, 1 V, 10 V, 100 V
VdivArgs == {0, 1, 10, 2000, 20000, 200000}

\* read attenuations: 1X, 10X, 100X and an unreadable one
AttenRead == {1, 10, 100, 0}

SetChannelVoltsCall(atten, vdiv, offset, okV, okO) ==
    /\ pc = "idle"
    /\ \E before \in {[vdiv |-> VOLT_1V, atten |-> atten, offset |-> Fin(500)]} :
         \E r \in {SetChannelVolts(before, vdiv, offset, okV, okO)} :
           /\ ioCall' = [op |-> "SetChannelVolts", before |-> before, vdiv |-> vdiv,
                         offset |-> offset, okV |-> okV, okO |-> okO,
                         after |-> r.ch, sent |-> r.sent, ret |-> r.ret]
           /\ UNCHANGED <<sessVars, instrVars, loopVars, obsVars, adjCall, tbCall, sock>>

NextChannelVolts ==
    \E atten \in AttenRead, vdiv \in VdivArgs, offset \in {NaN, Fin(0), Fin(2000)},
       okV \in BOOLEAN, okO \in BOOLEAN :
        SetChannelVoltsCall(atten, vdiv, offset, okV, okO)

SpecChannelVolts == InitTimebase /\ [][NextChannelVolts]_vars

(***************************************************************************)
(* Oscilloscope::Measure and MeasureDelay called on any reply of Replies.  *)
(* ioCall keeps the reply and the value returned, Raised when an exception *)
(* left the call.                                                          *)
(***************************************************************************)
MaxField == 2

FieldChars == {"0", "1", ".", "E", "-", "*"}
\* "1E999" and "1E-999", "nan", "inf", " 1" and "0x10"
FieldsWide ==
    {<<"1", "E", "9", "9", "9">>, <<"1", "E", "-", "9", "9", "9">>,
     <<"n", "a", "n">>, <<"i", "n", "f">>, <<" ", "1">>, <<"0", "x", "1", "0">>}
Fields ==
    UNION {[1 .. n -> FieldChars] : n \in 1 .. MaxField}
        \cup {<<"*", "*", "*", "*">>} \cup FieldsWide
Replies == [ok : BOOLEAN, header : {"good", "wrong"}, field : Fields]

MeasureCall(reply) ==
    /\ pc = "idle"
    /\ ioCall' = [op |-> "Measure", reply |-> reply, ret |-> Measure(reply)]
    /\ UNCHANGED <<sessVars, instrVars, loopVars, obsVars, adjCall, tbCall, sock>>

MeasureDelayCall(reply) ==
    /\ pc = "idle"
    /\ ioCall' = [op |-> "MeasureDelay", reply |-> reply, ret |-> MeasureDelay(reply)]
    /\ UNCHANGED <<sessVars, instrVars, loopVars, obsVars, adjCall, tbCall, sock>>

NextMeasure ==
    \/ \E reply \in Replies : MeasureCall(reply)
    \/ \E reply \in Replies : MeasureDelayCall(reply)

SpecMeasure == InitTimebase /\ [][NextMeasure]_vars

(***************************************************************************)
(* Oscilloscope::SetEdgeTrigger called with a trigger voltage of 1 V on    *)
(* any reply of RepliesAttn to the attenuation query, no write failing or  *)
(* one of the four.  ioCall keeps the reply, the outcomes of the writes    *)
(* and the result.                                                         *)
(***************************************************************************)
\* the replies of Replies, and replies with a carriage return or a line feed
\* in the value: "\r1", "1\r" (a reply that ends in CR LF), "1 \r", "\n1"
\* and "1\n2"
FieldsEnds ==
    {<<"\r", "1">>, <<"1", "\r">>, <<"1", " ", "\r">>, <<"\n", "1">>, <<"1", "\n", "2">>}
RepliesAttn == Replies \cup [ok : BOOLEAN, header : {"good", "wrong"}, field : FieldsEnds]

\* every write succeeds, or write n is the one that fails
OksTrig == {[i \in 1 .. 4 |-> i # n] : n \in 0 .. 4}

SetEdgeTriggerCall(reply, oks) ==
    /\ pc = "idle"
    /\ \E r \in {SetEdgeTrigger(reply, Fin(VOLT_1V), oks)} :
           /\ ioCall' = [op |-> "SetEdgeTrigger", reply |-> reply, voltage |-> Fin(VOLT_1V),
                         oks |-> oks, sent |-> r.sent, ret |-> r.ret,
                         raised |-> r.raised, level |-> r.level]
           /\ UNCHANGED <<sessVars, instrVars, loopVars, obsVars, adjCall, tbCall, sock>>

NextTrigger == \E reply \in RepliesAttn, oks \in OksTrig : SetEdgeTriggerCall(reply, oks)

SpecTrigger == InitTimebase /\ [][NextTrigger]_vars

(***************************************************************************)
(* The session measured through the replies of the oscilloscope: every     *)
(* reading of a MeasureFreq is what Oscilloscope::Measure makes of a reply *)
(* of ReplySamples, one reply for each query.    An exception thrown by    *)
(* Measure leaves MeasureFreq and its callers, which catch nothing.        *)
(***************************************************************************)
\* a failed query, a wrong header, "****", a value of 1 V, and "-"
ReplySamples ==
    {[ok |-> FALSE, header |-> "good", field |-> <<"1">>],
     [ok |-> TRUE, header |-> "wrong", field |-> <<"1">>],
     [ok |-> TRUE, header |-> "good", field |-> <<"*", "*", "*", "*">>],
     [ok |-> TRUE, header |-> "good", field |-> <<"1">>],
     [ok |-> TRUE, header |-> "good", field |-> <<"-">>]}

\* a times the factors ds[i .. j], each below 2^17
RECURSIVE BigMulAll(_, _, _, _)
BigMulHalf(lower, ds, i, j) ==
    IF Len(lower) = 0 THEN lower ELSE BigMulAll(lower, ds, (i + j) \div 2 + 1, j)
BigMulAll(a, ds, i, j) ==
    IF i > j THEN a
    ELSE IF i = j THEN BigMul(a, <<ds[i]>>)
    ELSE BigMulHalf(BigMulAll(a, ds, i, (i + j) \div 2), ds, i, j)

\* factors below 2^17 whose product is 10^n
TenFactors(n) == [i \in 1 .. (n + 3) \div 4 |-> IF i <= n \div 4 THEN 10 ^ 4 ELSE 10 ^ (n % 4)]

\* a quotient without the zeros above its highest digit
BigTrim(dv) == [q |-> SubSeq(dv.q, 1, TopDigit(dv.q, 1, Len(dv.q))), r |-> dv.r]

\* the double nearest to s * n * 10^e, n > 0: the one std::stod returns for
\* the decimal it has read
DblOfDec(s, n, e) ==
    IF e >= 0 THEN Round53(s, BigMulAll(n, TenFactors(e), 1, Len(TenFactors(e))), 0, FALSE)
    ELSE RoundQuot(s, BigTrim(BigDivAll(BigShl(n, 64 - 4 * e), TenFactors(-e), 1,
                                        Len(TenFactors(-e)), FALSE)),
                   4 * e - 64)

\* the double Measure returns (Oscilloscope.cpp:1132) as a reading of the
\* session; an exception of std::stod is kept as such
ToVolts(t) ==
    IF Thrown(t) THEN [k |-> "raise", v |-> 0]
    ELSE IF t.k = "fin"
         THEN (IF t.v = 0 THEN DZero
               ELSE DblOfDec(IF t.v < 0 THEN -1 ELSE 1, BigOf(Abs(t.v)), t.e))
    ELSE IF t.k = "pinf" THEN DPInf
    ELSE IF t.k = "ninf" THEN DNInf
    ELSE DNaN

\* the replies to the AMPL queries and to the delay query: a value of 1, and "-"
AmplSamples ==
    {[ok |-> TRUE, header |-> "good", field |-> <<"1">>],
     [ok |-> TRUE, header |-> "good", field |-> <<"-">>]}

\* the readings of a round from the replies to its queries: PKPK and AMPL
\* of the input channel, PKPK and AMPL of the output channel, and the delay
SigOfReplies(ri, ro, ai, ao, rd) ==
    [Reading(ToVolts(Measure(ri)), ToVolts(Measure(ro)),
             ToVolts(Measure(ai)), ToVolts(Measure(ao)))
        EXCEPT !.delay = MeasureDelay(rd)]

SigsReplies ==
    {SigOfReplies(ri, ro, ai, ao, rd) : ri \in ReplySamples, ro \in ReplySamples,
                                        ai \in AmplSamples, ao \in AmplSamples,
                                        rd \in AmplSamples}

\* Measure(ch, mpMeasure) at line 588 and Measure(ch, PKPK) at line 590
InputRaises  == sig.amplIn.k = "raise" \/ sig.pkIn.k = "raise"
OutputRaises == sig.amplOut.k = "raise" \/ sig.pkOut.k = "raise"

SigRaises == InputRaises \/ OutputRaises

\* a round in which Measure throws (FreqResp.cpp:515-516, 588): the input
\* channel is measured and scaled first; the exception unwinds MeasureFreq
\* and MeasureNext, Sweep or Init ahead of every later statement
LoopRaises ==
    /\ pc = "loop" /\ SigRaises
    /\ IF InputRaises
       THEN UNCHANGED <<scope, osScaleInput>>
       ELSE \E mi \in {MeasureAndScaleInput(scope[osChannelInput], osScaleInput, sig.pkIn)} :
                /\ scope' = [scope EXCEPT ![osChannelInput] = mi.ch]
                /\ osScaleInput' = mi.scale
    /\ adjust_in' = 0 /\ adjust_out' = 0 /\ alternate_count' = 0 /\ rounds' = 0
    /\ pc' = "idle" /\ caller' = "none"
    /\ lastRet' = RAISED
    /\ sig' = QuietSig
    /\ UNCHANGED <<initialized, completed, data, freq, stim, input, output, trig, meas,
                   f, osChannelInput, osChannelOutput, avMeasure, osScaleOutput>>
    /\ UNCHANGED <<stimAttached, oscAttached, lastOp, ioSent, attachTried, result,
                   delayReads, adjCall, tbCall, ioCall, sock>>

NextReplies ==
    \/ \E s \in SigsReplies : InitOk(RefCfg, s)
    \/ \E s \in SigsReplies : MeasureNextStart(s)
    \/ MeasureNextCompleted
    \/ ~SigRaises /\ LoopAgain
    \/ ~SigRaises /\ LoopExitInit
    \/ ~SigRaises /\ LoopExitMeasureNext
    \/ LoopRaises
    \/ Close

SpecReplies == Init /\ [][NextReplies]_vars

(***************************************************************************)
(* Auto-ranging: a session set up with a valid configuration and measured  *)
(* step by step, under any constant pair of peak-to-peak readings of       *)
(* SigsRange.                                                              *)
(***************************************************************************)
CfgsRange == {RefCfg, [RefCfg EXCEPT !.inAtten = 1]}

NextRange ==
    \/ \E c \in CfgsRange, s \in SigsRange : InitOk(c, s)
    \/ \E s \in SigsRange : MeasureNextStart(s)
    \/ LoopAgain
    \/ LoopExitInit
    \/ LoopExitMeasureNext
    \/ Close

SpecRange == Init /\ [][NextRange]_vars

(***************************************************************************)
(* Auto-ranging under a signal that changes while MeasureFreq runs: every  *)
(* Oscilloscope::Measure of a round may read another level of SigsHunt     *)
(* than the round before.  The probes are on two channels or on one.       *)
(***************************************************************************)
\* an input of 16 V peak to peak: in range at 5 V/div
LargeSig == Reading(Fin(32000), Fin(8000), Fin(8000), Fin(8000))
\* an input of 2 V peak to peak: in range at 0.5 V/div
SmallSig == Reading(Fin(4000), Fin(8000), Fin(8000), Fin(8000))
\* the input of LargeSig with an output of 2 V peak to peak: a round steps
\* the input channel up and the output channel down
CrossSig == Reading(Fin(32000), Fin(4000), Fin(8000), Fin(8000))
\* the input of SmallSig, and "-" in reply to the PKPK query of the output
OutBrokenSig == [SmallSig EXCEPT !.pkOut = ToVolts(Measure(NoNumber))]
\* the readings of QuietSig, and "-" in reply to the delay query
QuietNoDelaySig == [QuietSig EXCEPT !.delay = MeasureDelay(NoNumber)]
SigsHunt == {QuietSig, SmallSig, LargeSig, CrossSig, OutBrokenSig, QuietNoDelaySig}

\* a sweep of two samples with the probes on channels 1 and 2, and the same
\* with both probes on channel 2, which Init accepts
TwoChCfg  == [RefCfg EXCEPT !.Npoints = 1]
SameChCfg == [TwoChCfg EXCEPT !.inCh = TwoChCfg.outCh]
CfgsHunt  == {TwoChCfg, SameChCfg}

\* the instrument reads another level from the next round on
SignalDrifts(s) ==
    /\ pc = "loop" /\ sig # s
    /\ sig' = s
    /\ UNCHANGED <<sessVars, stimAttached, oscAttached, scope, loopVars, obsVars, adjCall, tbCall, ioCall, sock>>

NextHunt ==
    \/ \E c \in CfgsHunt, s \in SigsHunt : InitOk(c, s)
    \/ \E s \in SigsHunt : MeasureNextStart(s)
    \/ \E s \in SigsHunt : SignalDrifts(s)
    \/ ~SigRaises /\ LoopAgain
    \/ ~SigRaises /\ LoopExitInit
    \/ ~SigRaises /\ LoopExitMeasureNext
    \/ LoopRaises
    \/ Close

SpecHunt == Init /\ [][NextHunt]_vars

(***************************************************************************)
(* Stepping: a session set up with a sweep of CfgsSweep and measured with  *)
(* MeasureNext alone, until the sweep completes.                           *)
(***************************************************************************)
LinCfg(fStart, fStop, Npoints) ==
    [RefCfg EXCEPT !.fStart = Fin(fStart), !.fStop = Fin(fStop),
                   !.sweep = "LIN", !.Npoints = Npoints]
LogCfg(fStart, fStop, Npoints) ==
    [RefCfg EXCEPT !.fStart = Fin(fStart), !.fStop = Fin(fStop),
                   !.sweep = "LOG", !.Npoints = Npoints]

\* 15970.89 Hz .. 16380.40 Hz in 26 points: the step is a thousandth of the
\* stop frequency, and the 27th frequency is the double FREQ_FUDGE * fStop
FineCfg == LinCfg(1597089, 1638040, 26)

\* 100 Hz .. 1100 Hz in 11 points, 100 Hz .. 1 kHz in 4 and in 2 points,
\* 1000 Hz .. 1001 Hz in 2 points, 999 Hz .. 1000 Hz in 2 points (the third
\* frequency is 1.001 times the stop frequency), FineCfg; 1 kHz .. 10 kHz at
\* 10 points per decade, 100 Hz .. 10 kHz at 3 points per decade,
\* 100 Hz .. 1 kHz at 1 point
CfgsSweep ==
    { LinCfg(10000, 110000, 11), LinCfg(10000, 100000, 4), LinCfg(10000, 100000, 2),
      LinCfg(100000, 100100, 2), LinCfg(99900, 100000, 2), FineCfg,
      LogCfg(100000, 1000000, 10), LogCfg(10000, 1000000, 3), LogCfg(10000, 100000, 1) }

NextStep ==
    \/ \E c \in CfgsSweep, s \in Sigs : InitOk(c, s)
    \/ MeasureNextBegin(QuietSig)
    \/ MeasureNextCompleted
    \/ LoopAgain
    \/ LoopExitInit
    \/ LoopExitMeasureNext
    \/ Close

SpecStep == Init /\ [][NextStep]_vars

(***************************************************************************)
(* A long logarithmic sweep: 1 MHz .. 10 MHz at 2500 points per decade,    *)
(* stepped with MeasureNext under a signal that stays in range.            *)
(***************************************************************************)
LongCfg == LogCfg(100000000, 1000000000, 2500)

NextLong ==
    \/ InitOk(LongCfg, QuietSig)
    \/ MeasureNextBegin(QuietSig)
    \/ LoopExitInit
    \/ LoopExitMeasureNext

SpecLong == Init /\ [][NextLong]_vars

(***************************************************************************)
(* Properties.                                                             *)
(***************************************************************************)
\* a loop state that one more round under the same readings leaves as it is,
\* without ending the loop: every later round repeats it
LoopStuck ==
    /\ pc = "loop"
    /\ \E r \in {Round} :
           /\ ~r.done
           /\ r.scope = scope
           /\ r.scaleIn = osScaleInput /\ r.scaleOut = osScaleOutput
           /\ r.adjIn = adjust_in /\ r.adjOut = adjust_out
           /\ r.alt = alternate_count

\* C1: under constant readings the convergence loop of MeasureFreq ends after
\* finitely many rounds (both adjustments zero, or three direction changes):
\* no round leaves the loop running in the state it found.
C1_LoopTerminates == ~LoopStuck

\* the table index of a tabulated volts-per-division value
IndexOf(call, vdiv) == NearestIndex(call.atten, vdiv)

\* old index + step, kept inside the table
ClampIndex(i) ==
    IF i < 0 THEN 0 ELSE IF i > N_VOLTAGE_PAIRS - 1 THEN N_VOLTAGE_PAIRS - 1 ELSE i

\* C2: AdjustChannelVolts on a 1x or 10x channel, for a step of -3..+3, moves
\* to the index (old + step) clamped to 0..13 and returns new index - old
\* index (+1 from 13 returns 0, -3 from 2 returns -2).
C2_AppliedStep ==
    (adjCall # NoCall /\ adjCall.adjust \in -ADJ_LIMIT .. ADJ_LIMIT) =>
        /\ IndexOf(adjCall, adjCall.new)
               = ClampIndex(IndexOf(adjCall, adjCall.old) + adjCall.adjust)
        /\ adjCall.ret = IndexOf(adjCall, adjCall.new) - IndexOf(adjCall, adjCall.old)

\* C3: Init on an initialized session (ready or completed) returns
\* FRRET_ALREADY_INITIALIZED, attaches nothing, sends nothing, and leaves the
\* stored configuration, f, completed and data as they were.
C3_InitTwice ==
    [][(pc = "idle" /\ initialized /\ lastOp' = "Init") =>
           /\ lastRet' = FRRET_ALREADY_INITIALIZED
           /\ ~ioSent' /\ ~attachTried'
           /\ UNCHANGED <<sessVars, instrVars>>]_vars

C3_Witness ==
    /\ lastOp = "Init" /\ lastRet = FRRET_ALREADY_INITIALIZED
    /\ initialized /\ completed /\ Len(data) > 0

\* C4: MeasureNext on a completed session is rejected with a status of its
\* own, other than those of a step that measured (FRRET_SUCCESS,
\* FRRET_COMPLETE), and has no side effects: nothing is sent, no sample is
\* appended, f, completed and the out-parameter are left alone.
C4_CompletedRejected ==
    [][(pc = "idle" /\ initialized /\ completed /\ lastOp' = "MeasureNext") =>
           /\ lastRet' \notin {FRRET_SUCCESS, FRRET_COMPLETE}
           /\ ~ioSent' /\ ~resultSet'
           /\ UNCHANGED <<sessVars, instrVars>>]_vars

\* C5: MeasureNext and Sweep on a session that is not initialized return
\* FRRET_NOT_INITIALIZED and change nothing: nothing is sent, no sample is
\* appended, f and completed are left alone.
C5_NotInitialized ==
    [][(pc = "idle" /\ ~initialized /\ lastOp' \in {"MeasureNext", "Sweep"}) =>
           /\ lastRet' = FRRET_NOT_INITIALIZED
           /\ ~ioSent' /\ ~attachTried' /\ ~resultSet'
           /\ UNCHANGED <<sessVars, instrVars>>]_vars

\* Sweep after an Init that failed at the oscilloscope
C5_Witness ==
    /\ lastOp = "Sweep" /\ lastRet = FRRET_NOT_INITIALIZED
    /\ ~initialized /\ stimAttached /\ freq # FreqOf(RefCfg)

\* C6: Close in any state returns success and leaves the session
\* uninitialized, not completed, without samples and with both instruments
\* detached; an Init that follows is not answered FRRET_ALREADY_INITIALIZED.
C6_CloseResets ==
    /\ [](lastOp = "Close" =>
             /\ lastRet = FRRET_SUCCESS
             /\ ~initialized /\ ~completed /\ data = <<>>
             /\ ~stimAttached /\ ~oscAttached)
    /\ [][(lastOp = "Close" /\ lastOp' = "Init") =>
             lastRet' # FRRET_ALREADY_INITIALIZED]_vars

\* Close of a session that had been initialized with fStart = 100 Hz
C6_Witness ==
    /\ lastOp = "Close" /\ ~initialized /\ ~stimAttached /\ ~oscAttached
    /\ f # DZero

\* the codes of the groups that are invalid
InvalidCodes(fr, st, tr) ==
    (IF FreqInvalid(fr) THEN {FRRET_INVALID_FREQUENCY} ELSE {})
    \cup (IF StimInvalid(st) THEN {FRRET_INVALID_STIM} ELSE {})
    \cup (IF TrigInvalid(tr) THEN {FRRET_INVALID_TRIG} ELSE {})

\* C7: Init with an invalid group (fStart <= 0 or NaN, fStop <= fStart, vstim
\* <= 0 or NaN, vTrig NaN) returns the code of an invalid group, before any
\* instrument is attached or written to, and the session stays uninitialized.
C7_InvalidGroup ==
    [][(pc = "idle" /\ ~initialized /\ lastOp' = "Init"
          /\ InvalidCodes(freq', stim', trig') # {}) =>
           /\ lastRet' \in InvalidCodes(freq', stim', trig')
           /\ ~ioSent' /\ ~attachTried'
           /\ ~initialized'
           /\ UNCHANGED instrVars]_vars

\* an invalid stimulus and an invalid trigger: the trigger's code is returned
C7_Witness ==
    /\ lastOp = "Init" /\ lastRet = FRRET_INVALID_TRIG
    /\ StimInvalid(stim) /\ TrigInvalid(trig)
    /\ ~initialized /\ ~attachTried /\ ~ioSent

\* C8: no initialized session holds a stimulus amplitude, a stimulus offset
\* or a trigger voltage that is not finite (NaN, +infinity, -infinity).
C8_FiniteStimTrig ==
    initialized => /\ isfinite(stim.vstim) /\ isfinite(stim.vdc)
                   /\ isfinite(trig.vTrig)

\* C9: in every initialized session fStop > fStart > 0 and Npoints >= 2.
C9_SweepSpecValid ==
    initialized => /\ dLT(Fin(0), freq.fStart) /\ dLT(freq.fStart, freq.fStop)
                   /\ freq.Npoints >= 2

\* C10: in every initialized session the input and the output are bound to
\* different oscilloscope channels.
C10_DistinctChannels == initialized => osChannelInput # osChannelOutput

\* the double nearest to start + k * (stop - start) / (N - 1)
LinFreqAt(fr, k) ==
    DblOfRatio(fr.fStart.v * (fr.Npoints - 1) + k * (fr.fStop.v - fr.fStart.v),
               FREQ_UNIT * (fr.Npoints - 1))

\* C11: a linear sweep of N >= 2 points, stepped with MeasureNext from a fresh
\* session, gives the samples at start + k (stop - start) / (N - 1), k = 0 ..
\* N - 1, and completes with the N-th: never more than N samples, none above
\* the stop frequency.
C11_LinearSweep ==
    (initialized /\ pc = "idle" /\ freq.sweep = "LIN" /\ freq.Npoints >= 2) =>
        /\ Len(data) <= freq.Npoints
        /\ \A k \in 1 .. Len(data) : data[k].freq = LinFreqAt(freq, k - 1)
        /\ completed <=> Len(data) = freq.Npoints

\* the whole decades from fStart to fStop
Decades(fr) ==
    CASE fr.fStop.v = 10 * fr.fStart.v -> 1
      [] fr.fStop.v \div 100 = fr.fStart.v /\ fr.fStop.v % 100 = 0 -> 2

\* C12: a logarithmic sweep of N points per decade over D whole decades,
\* stepped with MeasureNext from a fresh session, gives N * D + 1 samples,
\* each 10^(1/N) times the one before, and completes with the last of them.
\* The ratio is stated of the newest sample: the samples before it were the
\* newest in earlier states, and data only grows.
C12_LogSweep ==
    (initialized /\ pc = "idle" /\ freq.sweep = "LOG") =>
        /\ Len(data) <= freq.Npoints * Decades(freq) + 1
        /\ Len(data) >= 2 =>
               data[Len(data)].freq = LogStep(data[Len(data) - 1].freq, freq.Npoints)
        /\ completed <=> Len(data) = freq.Npoints * Decades(freq) + 1

\* the positive double x exceeds 1.001 times the positive double y, the
\* product taken exactly: 1000 x > 1001 y
ExceedsFudged(x, y) ==
    LET a == BigMul(x.m, BigOf(FUDGE_DEN))
        b == BigMul(y.m, BigOf(FUDGE_NUM))
    IN  IF x.e >= y.e THEN BigCmp(BigShl(a, x.e - y.e), b) > 0
        ELSE BigCmp(a, BigShl(b, y.e - x.e)) > 0

\* x exceeds 1.001 x fStop
ExceedsStop(x, fr) ==
    IF x.k = "fin" /\ fr.fStop.k = "fin"
    THEN x.s = 1 /\ ~IsZero(x) /\ ExceedsFudged(x, FreqD(fr.fStop))
    ELSE fLT(FreqD(fr.fStop), x)

\* C13: a MeasureNext that measures returns FRRET_COMPLETE exactly when the
\* frequency it leaves in f exceeds 1.001 x fStop, and FRRET_SUCCESS
\* otherwise; completed becomes true on that step and on no other.
C13_CompleteOnLastStep ==
    /\ [][(pc = "loop" /\ caller = "MeasureNext" /\ pc' = "idle") =>
             /\ ~completed
             /\ lastRet' = (IF ExceedsStop(f', freq) THEN FRRET_COMPLETE ELSE FRRET_SUCCESS)
             /\ completed' = ExceedsStop(f', freq)]_vars
    /\ [][(~completed /\ completed') => (pc = "loop" /\ ExceedsStop(f', freq))]_vars

\* C14: when Sweep returns FRRET_COMPLETE, data holds the samples of that
\* sweep and nothing else: the first at fStart, each next one step further,
\* in increasing order of frequency.
C14_SweepData ==
    (pc = "idle" /\ lastOp = "Sweep" /\ lastRet = FRRET_COMPLETE) =>
        /\ completed
        /\ Len(data) >= 1 /\ data[1].freq = FreqD(freq.fStart)
        /\ \A k \in 1 .. Len(data) - 1 :
               /\ fLT(data[k].freq, data[k + 1].freq)
               /\ data[k + 1].freq = NextFreq(data[k].freq, freq)

\* C15: data is append-only while the session lives: a step either leaves
\* data alone, or is the end of the measurement of a MeasureNext (called
\* directly or by Sweep), which appends the one sample it measured at the
\* cursor, or is Close, which empties data; and every direct MeasureNext that
\* measures appends exactly one sample, the very sample it writes to its
\* out-parameter.
C15_AppendOnly ==
    /\ [][\/ data' = data
          \/ /\ pc = "loop" /\ caller \in {"MeasureNext", "Sweep"}
             /\ data' = Append(data, SampleOf(f, sig, avMeasure))
             /\ caller = "MeasureNext" => result' = SampleOf(f, sig, avMeasure)
          \/ lastOp' = "Close" /\ data' = <<>>]_vars
    /\ [][(pc = "loop" /\ caller = "MeasureNext" /\ pc' = "idle") =>
             /\ Len(data') = Len(data) + 1
             /\ result' = data'[Len(data')]]_vars

\* on a threshold, and a NaN reading, take the later branch.
SeekClass(pk, fs) ==
    CASE pk.k = "nan"  -> 0
      [] pk.k = "pinf" -> 1
      [] pk.k = "ninf" -> -2
      [] pk.k = "fin"  ->
            IF      400 * pk.v > 389 * fs THEN 1
            ELSE IF 400 * pk.v < 69 * fs  THEN -2
            ELSE IF 400 * pk.v < 145 * fs THEN -1
            ELSE 0

C17_Classification ==
    [][adjCall'.adjust = SeekClass(sig.pkIn, osScaleInput.pp)]_vars

\* C18: a round of the loop of MeasureFreq auto-scales the input channel and
\* then the output channel, each against the scale cached for it; the loop
\* goes on after a round in which a channel was adjusted and fewer than three
\* reversals are counted, and ends with the first round in which neither
\* channel was adjusted or the count reached three, and with no earlier one;
\* MeasureDelay is called once, in that last round.
C18_LoopExit ==
    [][pc = "loop" =>
         LET mi   == MeasureAndScaleInput(scope[osChannelInput], osScaleInput, sig.pkIn)
             sc1  == [scope EXCEPT ![osChannelInput] = mi.ch]
             mo   == MeasureAndScaleInput(sc1[osChannelOutput], osScaleOutput, sig.pkOut)
             alt  == IF adjust_in * mi.adjust < 0 \/ adjust_out * mo.adjust < 0
                     THEN alternate_count + 1 ELSE alternate_count
             stop == (mi.adjust = 0 /\ mo.adjust = 0) \/ alt >= 3
         IN  \/ UNCHANGED <<scope, loopVars, obsVars>>
             \/ /\ scope' = [sc1 EXCEPT ![osChannelOutput] = mo.ch]
                /\ osScaleInput' = mi.scale /\ osScaleOutput' = mo.scale
                /\ delayReads = 0
                /\ IF stop
                   THEN pc' = "idle" /\ delayReads' = 1
                   ELSE /\ pc' = "loop" /\ delayReads' = 0
                        /\ adjust_in' = mi.adjust /\ adjust_out' = mo.adjust
                        /\ alternate_count' = alt]_vars

\* C19: SetTimebase picks the smallest tabulated time per division that is
\* at least a fourteenth of the capture time asked for, the largest one
\* (100 s) when there is none; it returns fourteen times the pick when the
\* write succeeded and NaN when it failed; so a capture time of 1400 s or
\* less is covered by the value returned.
Qualifies(tcapture) ==
    {i \in 0 .. nTimePairs - 1 : TLE(tcapture, TScale(TimeSec(i), 14))}
\* capture time picks a time per division that is not the larger one.
C20_Monotonic ==
    (tbCall.pick >= 0 /\ tbCall.before.pick >= 0) =>
        /\ (TLE(tbCall.before.tcapture, tbCall.tcapture)
              /\ ~TLE(tbCall.tcapture, tbCall.before.tcapture)) =>
               TLE(TimeSec(tbCall.before.pick), TimeSec(tbCall.pick))
        /\ (TLE(tbCall.tcapture, tbCall.before.tcapture)
              /\ ~TLE(tbCall.before.tcapture, tbCall.tcapture)) =>
               TLE(TimeSec(tbCall.pick), TimeSec(tbCall.before.pick))

\* 1.4001 s was asked for after 5000 s: 200 ms per division
\* after 100 s per division
C20_Witness ==
    /\ tbCall.before.tcapture = TFin(5, 3) /\ TimeSec(tbCall.before.pick) = TFin(1, 2)
    /\ tbCall.tcapture = TFin(14001, -4) /\ TimeSec(tbCall.pick) = TFin(2, -1)

\* C21: CoercePhase maps every finite phase to a value from 0 up to but not
\* including 360 that differs from it by a whole number of turns, and maps
\* that value to itself.
C21_PhaseRange ==
    (ioCall.op = "CoercePhase" /\ ioCall.phase.k = "fin") =>
        /\ ioCall.ret.k = "fin"
        /\ TLE(TFin(0, 0), ioCall.ret) /\ ~TLE(TFin(360, 0), ioCall.ret)
        /\ ioCall.phase.e = -3 => (ioCall.ret.v - ioCall.phase.v) % 360000 = 0
        /\ ioCall.again = ioCall.ret

\* C22: SetChannel hands to Write the commands of the parameters that are not
\* NaN, in the order frequency, amplitude, offset, phase, up to and including
\* the first write that fails; it returns false when a write failed and true
\* when every command written succeeded.
Given(params) == SelectSeq(<<1, 2, 3, 4>>, LAMBDA i : params[i].k # "nan")

FailsAt(want, oks) == {n \in 1 .. Len(want) : ~oks[want[n]]}

C22_SetChannelWrites ==
    ioCall.op = "SetChannel" =>
        LET want  == Given(ioCall.params)
            fails == FailsAt(want, ioCall.oks)
            last  == IF fails = {} THEN Len(want)
                     ELSE CHOOSE n \in fails : \A k \in fails : n <= k
        IN  /\ Len(ioCall.sent) = last
            /\ \A n \in 1 .. last :
                   ioCall.sent[n] = <<"FREQ", "VOLT", "VOLT:OFFS", "PHAS">>[want[n]]
            /\ ioCall.ret = (fails = {})

\* amplitude and phase were given and offset was not; the amplitude write
\* failed after the frequency was written, and nothing followed
C22_Witness ==
    /\ ioCall.op = "SetChannel"
    /\ ioCall.params[1].k = "fin" /\ ioCall.params[2].k = "fin"
    /\ ioCall.params[3].k = "nan" /\ ioCall.params[4].k = "fin"
    /\ ioCall.oks = <<TRUE, FALSE, TRUE, TRUE>>
    /\ ioCall.sent = <<"FREQ", "VOLT">> /\ ~ioCall.ret

\* C23: SetChannelVolts with the offset left out returns true and leaves the
\* offset of the channel alone, when the attenuation of the channel is 1X or
\* 10X, the VoltsPerDiv value is in the table of that attenuation and the
\* write of the scale succeeds.
C23_OffsetOmitted ==
    (/\ ioCall.op = "SetChannelVolts" /\ isnan(ioCall.offset)
     /\ ioCall.before.atten \in {1, 10}
     /\ InVoltagePairs(ioCall.before.atten, ioCall.vdiv)
     /\ ioCall.okV) =>
        /\ ioCall.ret = TRUE
        /\ ioCall.after.offset = ioCall.before.offset

\* C24: SetEdgeTrigger never raises; when TRLV is written its level is the
\* voltage over the attenuation read; and when the attenuation query failed,
\* the reply does not match or its value is no number std::stod converts,
\* the call returns false and hands none of TRCP, TRLV, TRSE, TRSL to Write.
C24_TriggerAtten ==
    ioCall.op = "SetEdgeTrigger" =>
        /\ ~ioCall.raised
        /\ "TRLV" \in {ioCall.sent[i] : i \in 1 .. Len(ioCall.sent)} =>
               ioCall.level = [num |-> ioCall.voltage, den |-> stod(ioCall.reply.field)]
        /\ (\/ ~ioCall.reply.ok
            \/ ioCall.reply.header # "good"
            \/ \E i \in 1 .. Len(ioCall.reply.field) : ioCall.reply.field[i] \in {"\n", "\r"}
            \/ Thrown(stod(ioCall.reply.field))) =>
               (ioCall.ret = FALSE /\ ioCall.sent = <<>>)

\* C25: Measure and MeasureDelay never raise, and return NaN when the query
\* failed, when the text around the value does not match, and when the value
\* holds a character outside the accepted class (as in "****") or no digit
\* (as in "-", "E", "..").
HasDigit(field) == \E i \in 1 .. Len(field) : IsDigit(field[i])

C25_MeasureNaN ==
    ioCall.op \in {"Measure", "MeasureDelay"} =>
        /\ ~Thrown(ioCall.ret)
        /\ (\/ ~ioCall.reply.ok
            \/ ioCall.reply.header # "good"
            \/ ~FieldInClass(ioCall.reply.field)
            \/ ~HasDigit(ioCall.reply.field)) => ioCall.ret = TNaN

\* C26: on an initialized session that is not completed, MeasureNext appends
\* one sample, with NaN where a reading failed, steps the cursor by the rule
\* of the sweep and returns FRRET_COMPLETE or FRRET_SUCCESS as the new cursor
\* is or is not past the stop frequency, whatever the replies to its
\* measurement queries; its status is never negative once initialized.
C26_MalformedReplies ==
    /\ [][(pc = "loop" /\ caller = "MeasureNext" /\ pc' = "idle") =>
             /\ Len(data') = Len(data) + 1
             /\ data'[Len(data')].freq = f
             /\ f' = NextFreq(f, freq)
             /\ lastRet' = (IF PastStop(f', freq) THEN FRRET_COMPLETE ELSE FRRET_SUCCESS)]_vars
    /\ []((initialized /\ pc = "idle" /\ lastOp = "MeasureNext") => lastRet >= 0)

\* C27: an Init that returns FRRET_INIT_SINEGEN has left the oscilloscope
\* alone; one that returns FRRET_INIT_OSCILLOSCOPE has attached the stimulus
\* and not the oscilloscope; after either the session is not initialized and
\* no measurement was started or recorded.
C27_ConnectionErrors ==
    [][(lastOp' = "Init" /\ lastRet' \in {FRRET_INIT_SINEGEN, FRRET_INIT_OSCILLOSCOPE}) =>
         /\ ~initialized' /\ pc' = "idle" /\ data' = data /\ ~resultSet' /\ delayReads' = 0
         /\ scope' = scope
         /\ lastRet' = FRRET_INIT_SINEGEN => oscAttached' = oscAttached
         /\ lastRet' = FRRET_INIT_OSCILLOSCOPE => (stimAttached' /\ ~oscAttached')]_vars

\* Init has returned FRRET_INIT_SINEGEN on a stimulus that took the
\* connection and failed its set-up
C27_Witness ==
    /\ lastOp = "Init" /\ lastRet = FRRET_INIT_SINEGEN
    /\ stimAttached /\ ~oscAttached /\ ~initialized /\ pc = "idle"

(***************************************************************************)
(* The bandwidth-limit option of the measurement channels: the option as   *)
(* the command line takes it (MeasureResponse.cpp:654-655, 716-724), the   *)
(* limit of each oscilloscope channel after SetupOscilloscopeDefault       *)
(* (Oscilloscope.cpp:431-443) and after the channel set-up of Init         *)
(* (FreqResp.cpp:268-298).                                                 *)
(***************************************************************************)
\* the option strings the pattern -?BWL? of line 662 accepts; <<>> stands for
\* an in: or out: argument without the option
BwlOptions == {<<>>, <<"B", "W", "L">>, <<"-", "B", "W", "L">>, <<"B", "W">>, <<"-", "B", "W">>}

\* lines 654-655 and 716-724: bwl defaults to true, and an option sets it to
\* whether its first character is not '-'
ParseBwl(str) == IF str = <<>> THEN TRUE ELSE str[1] # "-"

\* SetupOscilloscopeDefault sets every channel to BWL_FULL (line 435)
BwlDefault == [c \in Channels |-> "BWL_FULL"]

\* Oscilloscope::SetChannelBWL (Oscilloscope.cpp:719-737): BWL_FULL writes
\* "BWL OFF" and BWL_ON writes "BWL ON"; the instrument takes the limit when
\* the write succeeds (ok) and the result is that of the write.  UNSPEC has
\* no case in the switch: nothing is written and the result is false.
SetChannelBWL(limits, ch, bwl, ok) ==
    IF bwl = "BWL_FULL" \/ bwl = "BWL_ON"
    THEN [limits |-> IF ok THEN [limits EXCEPT ![ch] = bwl] ELSE limits,
          sent   |-> <<IF bwl = "BWL_FULL" THEN "BWL OFF" ELSE "BWL ON">>,
          ret    |-> ok]
    ELSE [limits |-> limits, sent |-> <<>>, ret |-> FALSE]

\* The channel set-up of Init (FreqResp.cpp:268-298) enables the two channels
\* and sets their attenuation, scale and coupling; it makes no call of
\* SetChannelBWL and reads neither input.bwl nor output.bwl, so the limits
\* are those of SetupOscilloscopeDefault.
InitChannelLimits(inCfg, outCfg) == BwlDefault

\* the limit a bwl flag asks for
BwlOf(flag) == IF flag THEN "BWL_ON" ELSE "BWL_FULL"

BwlInitCall(inCh, inOpt, outCh, outOpt) ==
    /\ pc = "idle"
    /\ \E inCfg \in {[ch |-> inCh, bwl |-> ParseBwl(inOpt)]},
          outCfg \in {[ch |-> outCh, bwl |-> ParseBwl(outOpt)]} :
           /\ ioCall' = [op |-> "InitChannels", inOpt |-> inOpt, outOpt |-> outOpt,
                         input |-> inCfg, output |-> outCfg,
                         limits |-> InitChannelLimits(inCfg, outCfg)]
           /\ UNCHANGED <<sessVars, instrVars, loopVars, obsVars, adjCall, tbCall, sock>>

NextBwl ==
    \E inCh \in Channels, outCh \in Channels, inOpt \in BwlOptions, outOpt \in BwlOptions :
        BwlInitCall(inCh, inOpt, outCh, outOpt)

SpecBwl == InitTimebase /\ [][NextBwl]_vars

\* C28: after the channel set-up of a successful Init the bandwidth limit of
\* the input channel and of the output channel is the one its configured bwl
\* flag asks for (on for bwl, the default; full bandwidth for -bwl).
C28_BandwidthLimit ==
    ioCall.op = "InitChannels" =>
        /\ ioCall.limits[InputChannel(ioCall.input.ch)] = BwlOf(ioCall.input.bwl)
        /\ ioCall.limits[OutputChannel(ioCall.output.ch)] = BwlOf(ioCall.output.bwl)

(***************************************************************************)
(* Auto-ranging under a signal that changes on both channels while         *)
(* MeasureFreq runs: faint or beyond the largest range on the input and on *)
(* the output alike.                                                       *)
(***************************************************************************)
BothFaintSig == Reading(Fin(30), Fin(30), Fin(8000), Fin(8000))
BothHighSig  == Reading(Fin(2000000), Fin(2000000), Fin(8000), Fin(8000))
SigsBoth     == {QuietSig, BothFaintSig, BothHighSig}

NextBoth ==
    \/ \E s \in SigsBoth : InitOk(RefCfg, s)
    \/ \E s \in SigsBoth : MeasureNextStart(s)
    \/ \E s \in SigsBoth : SignalDrifts(s)
    \/ LoopAgain
    \/ LoopExitInit
    \/ LoopExitMeasureNext
    \/ Close

SpecBoth == Init /\ [][NextBoth]_vars

\* 1 when the adjustment now has the opposite sign of the one before, else 0
Flip(last, now) == IF last * now < 0 THEN 1 ELSE 0

\* C29: the count of hunting events starts at 0 with every frequency, and a
\* round of the loop of MeasureFreq adds to it one for the input channel when
\* its adjustment has the opposite sign of its adjustment of the round
\* before, and one for the output channel likewise; an adjustment of zero on
\* either side adds nothing.
C29_HuntingCount ==
    [][/\ (pc = "idle" /\ pc' = "loop") => alternate_count' = 0
       /\ (pc = "loop" /\ pc' = "loop" /\ sig' = sig) =>
              alternate_count' = alternate_count + Flip(adjust_in, adjust_in')
                                                 + Flip(adjust_out, adjust_out')]_vars

\* C30: each of the two calls of MeasureAndScaleInput in a round of the loop
\* of MeasureFreq classifies its peak-to-peak reading against the full-scale
\* value the instrument has for the channel when the call is made, whether
\* the step it then requests is 0 or not; a cached scale that differs from
\* the instrument's never decides the request.
C30_LiveScale ==
    pc = "loop" =>
        LET mi  == MeasureAndScaleInput(scope[osChannelInput], osScaleInput, sig.pkIn)
            sc1 == [scope EXCEPT ![osChannelInput] = mi.ch]
        IN  /\ SeekRequest(sig.pkIn, osScaleInput.pp)
                 = SeekRequest(sig.pkIn, ReadScale(scope[osChannelInput]).pp)
            /\ SeekRequest(sig.pkOut, osScaleOutput.pp)
                 = SeekRequest(sig.pkOut, ReadScale(sc1[osChannelOutput]).pp)

(***************************************************************************)
(* AdjustChannelVolts with the outcomes of its queries and of its write.   *)
(* A channel is [vdiv, atten, offset].  The outcome of a query for a       *)
(* number is "ok" (the reply matches the pattern and carries the           *)
(* instrument's value), "bad" (the reply does not match the pattern),      *)
(* "fail" (Query returns false) or "raise" (the reply matches the pattern  *)
(* and its field is no number, so that stod throws).                       *)
(***************************************************************************)
QueryOutcomes == {"ok", "bad", "fail", "raise"}

ZeroScale == [vdiv |-> 0, offset |-> 0, pp |-> 0, max |-> 0, min |-> 0]

\* Oscilloscope.cpp:974-1017: the scale after the two queries qv (VDIV?) and
\* qo (OFST?), what was sent, and whether stod threw
QueryScale(chst, qv, qo) ==
    LET asked  == qv # "fail" /\ qv # "raise"
        vdiv   == IF qv = "ok" THEN chst.vdiv ELSE 0
        offset == IF asked /\ qo = "ok" THEN chst.offset ELSE 0
        raised == qv = "raise" \/ (asked /\ qo = "raise")
        good   == qv # "fail" /\ qo # "fail" /\ ~raised
        pp     == IF good THEN vdiv * nVoltageDivisions ELSE 0
    IN  [scale  |-> [vdiv |-> vdiv, offset |-> offset, pp |-> pp,
                     max |-> IF good THEN pp \div 2 - offset ELSE 0,
                     min |-> IF good THEN -(pp \div 2) - offset ELSE 0],
         sent   |-> IF qv = "fail" \/ qv = "raise" THEN <<"VDIV?">> ELSE <<"VDIV?", "OFST?">>,
         raised |-> raised]

\* an attenuation that reads as 10x when the query fails or the reply does
\* not match
ReadChannelAttenTen(chst, qa) == IF qa = "ok" THEN chst.atten ELSE 10

\* Oscilloscope::ReadChannelAtten (Oscilloscope.cpp:1084-1096): the live
\* attenuation, 0 when the query fails or the reply does not match
ReadChannelAtten(chst, qa) == IF qa = "ok" THEN chst.atten ELSE 0

\* the write of SetChannelVolts(ch, vdiv) as AdjustChannelVolts calls it
\* (lines 623-651, offset left at DEFAULT_PARAM): qa2 is the outcome of its
\* own attenuation query, okW that of the VDIV write
AdjustWrite(chst, vdiv, qa2, okW) ==
    IF qa2 = "raise" THEN [ch |-> chst, sent |-> <<"ATTN?">>, raised |-> TRUE]
    ELSE IF ReadChannelAtten(chst, qa2) \in {1, 10}
              /\ InVoltagePairs(ReadChannelAtten(chst, qa2), vdiv)
         THEN [ch |-> IF okW THEN [chst EXCEPT !.vdiv = vdiv] ELSE chst,
               sent |-> <<"ATTN?", "VDIV">>, raised |-> FALSE]
         ELSE [ch |-> chst, sent |-> <<"ATTN?">>, raised |-> FALSE]

\* Oscilloscope::AdjustChannelVolts(ch, adjust, scale) (lines 964-1071) under
\* the outcomes io = [qv1, qo1, qa1, qa2, okW, qv2, qo2]: the first read of
\* the scale, the attenuation read, the write and the read after the write
AdjustChannelVoltsIo(chst, adjust, io) ==
    LET iAdj == LimitAdjust(adjust)
        r1   == QueryScale(chst, io.qv1, io.qo1)
        out(ch, scale, ret, sent, raised) ==
            [ch |-> ch, scale |-> scale, ret |-> ret, sent |-> sent, raised |-> raised]
    IN  IF r1.raised THEN out(chst, r1.scale, 0, r1.sent, TRUE)
        ELSE IF iAdj = 0 THEN out(chst, r1.scale, 0, r1.sent, FALSE)
        ELSE IF io.qa1 = "raise" THEN out(chst, r1.scale, 0, r1.sent \o <<"ATTN?">>, TRUE)
        ELSE LET vAtten == ReadChannelAtten(chst, io.qa1)
             IN  IF vAtten = 1 \/ vAtten = 10
                 THEN LET sc == StepAndClamp(NearestIndex(vAtten, r1.scale.vdiv), iAdj)
                          w  == AdjustWrite(chst, Volts(vAtten, sc.iChoose), io.qa2, io.okW)
                          r2 == QueryScale(w.ch, io.qv2, io.qo2)
                      IN  IF w.raised
                          THEN out(w.ch, r1.scale, 0, r1.sent \o <<"ATTN?">> \o w.sent, TRUE)
                          ELSE out(w.ch, r2.scale, sc.iAdjActual,
                                   r1.sent \o <<"ATTN?">> \o w.sent \o r2.sent, r2.raised)
                 ELSE out(chst, r1.scale, 0, r1.sent \o <<"ATTN?">>, FALSE)

\* Oscilloscope::AdjustChannelVolts(ch, adjust) (lines 930-938): the overload
\* without a scale returns true, converted to int, for adjust = 0
AdjustChannelVoltsNoScale(chst, adjust, io) ==
    IF adjust # 0 THEN AdjustChannelVoltsIo(chst, adjust, io)
    ELSE [ch |-> chst, scale |-> ZeroScale, ret |-> 1, sent |-> <<>>, raised |-> FALSE]

\* every query answered, the write accepted
IoAllOk == [qv1 |-> "ok", qo1 |-> "ok", qa1 |-> "ok", qa2 |-> "ok", okW |-> TRUE,
            qv2 |-> "ok", qo2 |-> "ok"]

\* the outcomes that depart from IoAllOk in one query or in the write
IoCases ==
    {IoAllOk, [IoAllOk EXCEPT !.okW = FALSE]}
    \cup UNION { {[IoAllOk EXCEPT ![q] = o] : o \in QueryOutcomes}
                 : q \in {"qv1", "qo1", "qa1", "qa2", "qv2", "qo2"} }

\* channels at 1 V/div, at the two ends of the 10x table, and at 100x
ChStates ==
    {[vdiv |-> VOLT_1V, atten |-> 10, offset |-> 1000],
     [vdiv |-> Volts(10, 0), atten |-> 10, offset |-> 0],
     [vdiv |-> Volts(10, N_VOLTAGE_PAIRS - 1), atten |-> 10, offset |-> -400],
     [vdiv |-> VOLT_1V, atten |-> 100, offset |-> 0]}

AdjustArgs == {-2, 0, 1}

AdjustIoCall(chst, adjust, io, withScale) ==
    /\ pc = "idle"
    /\ \E r \in {IF withScale THEN AdjustChannelVoltsIo(chst, adjust, io)
                               ELSE AdjustChannelVoltsNoScale(chst, adjust, io)} :
           /\ ioCall' = [op |-> "AdjustChannelVolts", withScale |-> withScale,
                         ch |-> chst, adjust |-> adjust, io |-> io,
                         after |-> r.ch, scale |-> r.scale, ret |-> r.ret,
                         sent |-> r.sent, raised |-> r.raised]
           /\ UNCHANGED <<sessVars, instrVars, loopVars, obsVars, adjCall, tbCall, sock>>

\* the channel as its attenuation query shows it
AsRead(chst, qa) == [chst EXCEPT !.atten = ReadChannelAtten(chst, qa)]

\* oscope.SetChannelVolts(ch, vdiv) with the attenuation query answered qa
SetVoltsIoCall(chst, vdiv, qa, okV) ==
    /\ pc = "idle"
    /\ \E r \in {SetChannelVolts(AsRead(chst, qa), vdiv, NaN, okV, TRUE)} :
           /\ ioCall' = [op |-> "SetChannelVolts", ch |-> chst, vdiv |-> vdiv, qa |-> qa,
                         okV |-> okV, sent |-> r.sent, ret |-> r.ret]
           /\ UNCHANGED <<sessVars, instrVars, loopVars, obsVars, adjCall, tbCall, sock>>

\* MeasureAndScaleInput on a channel whose attenuation query is answered qa,
\* with the scale read before and the peak-to-peak reading mag
ScaleInputCall(chst, qa, mag) ==
    /\ pc = "idle"
    /\ \E r \in {MeasureAndScaleInput(AsRead(chst, qa), ReadScale(chst), mag)} :
           /\ ioCall' = [op |-> "MeasureAndScaleInput", ch |-> chst, qa |-> qa, mag |-> mag,
                         request |-> SeekRequest(mag, ReadScale(chst).pp),
                         after |-> r.ch, adjust |-> r.adjust]
           /\ UNCHANGED <<sessVars, instrVars, loopVars, obsVars, adjCall, tbCall, sock>>

AttenOutcomes == {"ok", "bad", "fail"}

NextScale ==
    \/ \E chst \in ChStates, adjust \in AdjustArgs, io \in IoCases, withScale \in BOOLEAN :
           AdjustIoCall(chst, adjust, io, withScale)
    \/ \E chst \in ChStates, vdiv \in {VOLT_1V, 2 * VOLT_1V}, qa \in AttenOutcomes,
          okV \in BOOLEAN : SetVoltsIoCall(chst, vdiv, qa, okV)
    \/ \E chst \in ChStates, qa \in AttenOutcomes, mag \in {Fin(30), Fin(8000), PInf} :
           ScaleInputCall(chst, qa, mag)

SpecScale == InitTimebase /\ [][NextScale]_vars

\* what the fields of a scale are for a channel read in full
ScaleOf(vdiv, offset) ==
    [vdiv |-> vdiv, offset |-> offset, pp |-> vdiv * nVoltageDivisions,
     max |-> (vdiv * nVoltageDivisions) \div 2 - offset,
     min |-> -((vdiv * nVoltageDivisions) \div 2) - offset]

\* C31: after every call of AdjustChannelVolts(ch, adjust, scale) that
\* returns, whatever the outcomes of its queries, the scale has pp = 8 vdiv,
\* max = pp/2 - offset and min = -pp/2 - offset, with the five fields 0 when
\* the scale could not be read; and after a step was written the scale is
\* the one of the channel after the write.
C31_ScaleConsistent ==
    (ioCall.op = "AdjustChannelVolts" /\ ioCall.withScale /\ ~ioCall.raised) =>
        /\ \/ ioCall.scale = ZeroScale
           \/ ioCall.scale = ScaleOf(ioCall.scale.vdiv, ioCall.scale.offset)
        /\ (ioCall.after # ioCall.ch /\ ioCall.scale # ZeroScale) =>
               ioCall.scale.vdiv \in {0, ioCall.after.vdiv}

\* the number of table steps between two settings of a 1x or 10x channel
StepsBetween(before, after) ==
    IF before.atten \in {1, 10}
    THEN NearestIndex(before.atten, after.vdiv) - NearestIndex(before.atten, before.vdiv)
    ELSE 0

\* C32: with every query answered and the write accepted, either overload
\* of AdjustChannelVolts returns the number of table steps it applied, 0
\* when it applied none; AdjustChannelVolts(ch, 0) returns 0 and sends
\* nothing.
C32_StepsReturned ==
    (ioCall.op = "AdjustChannelVolts" /\ ioCall.io = IoAllOk) =>
        /\ ioCall.ret = StepsBetween(ioCall.ch, ioCall.after)
        /\ (ioCall.adjust = 0 /\ ~ioCall.withScale) => ioCall.sent = <<>>

\* the attenuation of the call on record does not read as 1 or 10
AttenUnknown(ch, qa) == ch.atten \notin {1, 10} \/ qa \in {"bad", "fail"}

\* C33: when the attenuation of the channel reads as anything other than 1
\* or 10 (0 when it cannot be read), AdjustChannelVolts with a request other
\* than 0 writes no scale and returns 0, SetChannelVolts returns false
\* without a write, and MeasureAndScaleInput reports an adjustment of 0.
C33_UnknownAttenuation ==
    /\ (/\ ioCall.op = "AdjustChannelVolts" /\ ioCall.adjust # 0 /\ ~ioCall.raised
        /\ AttenUnknown(ioCall.ch, ioCall.io.qa1)) =>
           /\ ioCall.ret = 0 /\ ioCall.after = ioCall.ch
           /\ \A i \in DOMAIN ioCall.sent : ioCall.sent[i] # "VDIV"
    /\ (ioCall.op = "SetChannelVolts" /\ AttenUnknown(ioCall.ch, ioCall.qa)) =>
           ~ioCall.ret /\ ioCall.sent = <<>>
    /\ (ioCall.op = "MeasureAndScaleInput" /\ AttenUnknown(ioCall.ch, ioCall.qa)) =>
           ioCall.adjust = 0 /\ ioCall.after.vdiv = ioCall.ch.vdiv

\* a step down was asked of a 10x channel whose attenuation query failed
C33_Witness ==
    /\ ioCall.op = "AdjustChannelVolts" /\ ioCall.adjust = -2
    /\ ioCall.ch.atten = 10 /\ ioCall.io.qa1 = "fail" /\ ioCall.ret = 0

\* the controller asked for a step of a channel whose attenuation it cannot read
C33_Controller ==
    /\ ioCall.op = "MeasureAndScaleInput" /\ ioCall.request # 0
    /\ ioCall.qa = "fail" /\ ioCall.adjust = 0

(***************************************************************************)
(* Oscilloscope::SetChannelEx (Oscilloscope.cpp:896-910).  oks[i] is the   *)
(* outcome of the i-th write in the order of ChannelExCommands, should it  *)
(* be sent.                                                                *)
(***************************************************************************)
ChannelExCommands == <<"INVS", "ATTN", "BWL", "CPL", "OFST", "VDIV", "TRACE">>

\* one setter of lines 901-904 and 907 after the progress r = [ch, sent, ret]:
\* a single write, skipped once an earlier one failed
ChannelExWrite(r, i, ch, oks) ==
    IF r.ret
    THEN [ch |-> IF oks[i] THEN ch ELSE r.ch,
          sent |-> Append(r.sent, ChannelExCommands[i]), ret |-> oks[i]]
    ELSE r

\* line 905: SetChannelOffset(ch, offset)
ChannelExOffset(r, offset, oks) ==
    IF r.ret
    THEN LET o == SetChannelOffset(r.ch, offset, oks[5])
         IN  [ch |-> o.ch, sent |-> r.sent \o o.sent, ret |-> o.ret]
    ELSE r

\* line 906: SetChannelVolts(ch, vdiv), its offset left at DEFAULT_PARAM
ChannelExVolts(r, vdiv, oks) ==
    IF r.ret
    THEN LET v == SetChannelVolts(r.ch, vdiv, NaN, oks[6], TRUE)
         IN  [ch |-> v.ch, sent |-> r.sent \o v.sent, ret |-> v.ret]
    ELSE r

SetChannelEx(chst, vdiv, offset, atten, oks) ==
    LET r1 == ChannelExWrite([ch |-> chst, sent |-> <<>>, ret |-> TRUE], 1, chst, oks)
        r2 == ChannelExWrite(r1, 2, [r1.ch EXCEPT !.atten = atten], oks)
        r3 == ChannelExWrite(r2, 3, r2.ch, oks)
        r4 == ChannelExWrite(r3, 4, r3.ch, oks)
        r5 == ChannelExOffset(r4, offset, oks)
        r6 == ChannelExVolts(r5, vdiv, oks)
    IN  ChannelExWrite(r6, 7, r6.ch, oks)

\* every write accepted, or all but the n-th
OksEx == {[i \in 1 .. 7 |-> i # n] : n \in 0 .. 7}

SetChannelExCall(chst, vdiv, offset, atten, oks) ==
    /\ pc = "idle"
    /\ \E r \in {SetChannelEx(chst, vdiv, offset, atten, oks)} :
           /\ ioCall' = [op |-> "SetChannelEx", ch |-> chst, vdiv |-> vdiv, offset |-> offset,
                         atten |-> atten, oks |-> oks,
                         after |-> r.ch, sent |-> r.sent, ret |-> r.ret]
           /\ UNCHANGED <<sessVars, instrVars, loopVars, obsVars, adjCall, tbCall, sock>>

NextChannelEx ==
    \E chst \in ChStates, vdiv \in {VOLT_1V, 2 * VOLT_1V}, offset \in {Fin(0), Fin(1000)},
       atten \in {1, 10}, oks \in OksEx : SetChannelExCall(chst, vdiv, offset, atten, oks)

SpecChannelEx == InitTimebase /\ [][NextChannelEx]_vars

\* the first write that is refused, 8 when none is
FirstRefused(oks) == IF \A i \in 1 .. 7 : oks[i] THEN 8
                     ELSE CHOOSE i \in 1 .. 7 : ~oks[i] /\ \A j \in 1 .. i - 1 : oks[j]

\* C34: SetChannelEx sends its commands in the order invert, attenuation,
\* bandwidth limit, coupling, offset, volts per division, enable, up to and
\* including the first one that is refused, and returns true exactly when
\* the seven were sent and accepted.
C34_ChannelExOrder ==
    ioCall.op = "SetChannelEx" =>
        LET n == FirstRefused(ioCall.oks)
        IN  /\ ioCall.sent = SubSeq(ChannelExCommands, 1, IF n = 8 THEN 7 ELSE n)
            /\ ioCall.ret = (n = 8)

(***************************************************************************)
(* The auto-ranging controller called again and again on one channel whose *)
(* peak-to-peak reading stays the same: the channel starts at any entry of *)
(* its table, the reading is on, just below or just above a threshold of   *)
(* any entry of that table, or is 0, NaN or infinite.                      *)
(***************************************************************************)
HystReadings(atten) ==
    {Fin((t * Volts(atten, j) * nVoltageDivisions) \div SEEK_DEN + d) :
        t \in {SEEK_HI, SEEK_LO, SEEK_MD}, j \in 0 .. N_VOLTAGE_PAIRS - 1, d \in {-1, 0, 1}}
        \cup {Fin(0), NaN, PInf, NInf}

InitHyst ==
    /\ initialized = TRUE /\ completed = FALSE /\ data = <<>>
    /\ freq = FreqOf(RefCfg) /\ stim = StimOf(RefCfg)
    /\ input = InputOf(RefCfg) /\ output = OutputOf(RefCfg)
    /\ trig = TrigOf(RefCfg) /\ meas = MeasOf(RefCfg)
    /\ f = FreqD(RefCfg.fStart) /\ osChannelInput = 1 /\ osChannelOutput = 2 /\ avMeasure = 2
    /\ \E atten \in {1, 10}, i \in 0 .. N_VOLTAGE_PAIRS - 1 :
           /\ scope = [ScopeDefault EXCEPT ![1] = [vdiv |-> Volts(atten, i), atten |-> atten]]
           /\ osScaleInput = ReadScale(scope[1])
           /\ \E p \in HystReadings(atten) :
                  sig = Reading(p, Fin(8000), Fin(8000), Fin(8000))
    /\ osScaleOutput = ReadScale(ScopeDefault[2])
    /\ stimAttached = TRUE /\ oscAttached = TRUE
    /\ pc = "idle" /\ caller = "none"
    /\ adjust_in = 0 /\ adjust_out = 0 /\ alternate_count = 0 /\ rounds = 0
    /\ lastOp = "none" /\ lastRet = FRRET_SUCCESS
    /\ ioSent = FALSE /\ attachTried = FALSE /\ result = NoResult /\ delayReads = 0
    /\ adjCall = NoCall /\ tbCall = NoTb /\ ioCall = NoIo /\ sock = NoSock

NextHyst == SeekCall

SpecHyst == InitHyst /\ [][NextHyst]_vars

\* fStart <= x <= 1.001 fStop
InSweepRange(x, fr) == fLE(FreqD(fr.fStart), x) /\ ~ExceedsStop(x, fr)

\* C36: after any calls of Init, MeasureNext, Sweep and Close every sample of
\* the result sequence has a frequency from the start frequency to 1.001
\* times the stop frequency, and MeasureFreq never runs at a frequency
\* outside that range.
C36_SampleRange ==
    /\ \A i \in DOMAIN data : InSweepRange(data[i].freq, freq)
    /\ pc = "loop" => InSweepRange(f, freq)

(***************************************************************************)
(* Socket_Instrument: the socket library and the connection count shared   *)
(* by the instrument objects (part_005).  The operators take and return    *)
(* the record sock without its field last.                                 *)
(***************************************************************************)
\* a Detach that counts down whether the object is attached or not
SockDetachAlways(s, o) ==
    [s EXCEPT !.bAttached[o] = FALSE, !.nInstrAttached = @ - 1]

\* Socket_Instrument::Detach (lines 187-201)
SockDetach(s, o) ==
    IF s.bAttached[o]
    THEN [s EXCEPT !.bAttached[o] = FALSE, !.nInstrAttached = @ - 1]
    ELSE s

\* Socket_Instrument::InitSockets (lines 44-57); started is whether
\* WSAStartup succeeds
InitSockets(s, started) ==
    IF ~s.bSocketsInitialized /\ started THEN [s EXCEPT !.bSocketsInitialized = TRUE] ELSE s

\* Socket_Instrument::CleanupSockets (lines 71-84)
CleanupSockets(s) ==
    IF s.nInstrAttached = 0 THEN [s EXCEPT !.bSocketsInitialized = FALSE] ELSE s

\* the constructor (lines 96-108)
SockConstruct(s, o, started) ==
    [InitSockets(s, started) EXCEPT !.alive = @ \cup {o}, !.bAttached[o] = FALSE]

\* the destructor (lines 120-126)
SockDestroy(s, o) ==
    LET d == SockDetach(s, o)
        c == IF d.nInstrAttached = 0 THEN CleanupSockets(d) ELSE d
    IN  [c EXCEPT !.alive = @ \ {o}]

\* Socket_Instrument::Attach (lines 138-174); connects is whether the
\* resource parses, resolves and accepts the connection
SockAttach(s, o, connects) ==
    LET d == IF s.bAttached[o] THEN SockDetach(s, o) ELSE s
    IN  IF d.bSocketsInitialized /\ connects
        THEN [d EXCEPT !.bAttached[o] = TRUE, !.nInstrAttached = @ + 1]
        ELSE d

SockCall(op, o, ret) == [op |-> op, obj |-> o, was |-> sock.bAttached[o], ret |-> ret]

Construct(o, started) ==
    /\ o \notin sock.alive
    /\ sock' = [SockConstruct(sock, o, started) EXCEPT !.last = SockCall("Construct", o, TRUE)]
    /\ UNCHANGED <<sessVars, instrVars, loopVars, obsVars, adjCall, tbCall, ioCall>>

Destroy(o) ==
    /\ o \in sock.alive
    /\ sock' = [SockDestroy(sock, o) EXCEPT !.last = SockCall("Destroy", o, TRUE)]
    /\ UNCHANGED <<sessVars, instrVars, loopVars, obsVars, adjCall, tbCall, ioCall>>

Attach(o, connects) ==
    /\ o \in sock.alive
    /\ \E a \in {SockAttach(sock, o, connects)} :
           sock' = [a EXCEPT !.last = SockCall("Attach", o, a.bAttached[o])]
    /\ UNCHANGED <<sessVars, instrVars, loopVars, obsVars, adjCall, tbCall, ioCall>>

Detach(o) ==
    /\ o \in sock.alive
    /\ sock' = [SockDetach(sock, o) EXCEPT !.last = SockCall("Detach", o, TRUE)]
    /\ UNCHANGED <<sessVars, instrVars, loopVars, obsVars, adjCall, tbCall, ioCall>>

NextSocket ==
    \/ \E o \in Instruments, started \in BOOLEAN : Construct(o, started)
    \/ \E o \in Instruments : Destroy(o)
    \/ \E o \in Instruments, connects \in BOOLEAN : Attach(o, connects)
    \/ \E o \in Instruments : Detach(o)

SpecSocket == InitTimebase /\ [][NextSocket]_vars

\* C37: after any Attach (on an attached instrument too, succeeding or
\* failing), Detach (repeated too), construction and destruction,
\* nInstrAttached is the number of objects whose bAttached is true, is not
\* negative, and is positive only while the socket library is initialized.
C37_ConnectionCount ==
    /\ sock.nInstrAttached = Cardinality({o \in sock.alive : sock.bAttached[o]})
    /\ \A o \in Instruments \ sock.alive : ~sock.bAttached[o]
    /\ sock.nInstrAttached >= 0
    /\ sock.nInstrAttached > 0 => sock.bSocketsInitialized

\* an attached instrument was attached again while another one is attached
C37_Witness ==
    /\ sock.last.op = "Attach" /\ sock.last.was /\ sock.last.ret
    /\ sock.nInstrAttached = 2

\* C38: while an instrument object exists the socket library, once
\* initialized, stays initialized: constructing, attaching, detaching or
\* destroying an object never leaves a live object with the library cleaned
\* up.
C38_LibraryStaysUp ==
    [][(sock.bSocketsInitialized /\ sock'.alive # {}) => sock'.bSocketsInitialized]_vars

\* the statuses of an Init that failed in validation or in connecting
InitFailures == {FRRET_INVALID_FREQUENCY, FRRET_INVALID_STIM, FRRET_INVALID_TRIG,
                 FRRET_INIT_SINEGEN, FRRET_INIT_OSCILLOSCOPE}

\* C39: when Init has returned a failure of validation, of the stimulus
\* connection or of the oscilloscope connection, neither the stimulus
\* generator nor the oscilloscope is attached.
C39_NoConnectionLeft ==
    (lastOp = "Init" /\ lastRet \in InitFailures) => (~stimAttached /\ ~oscAttached)

\* C40: completed implies initialized in every state; the flag is raised
\* only by a measurement that MeasureNext or Sweep made on an initialized
\* session, and Close clears it together with initialized.
C40_CompletedImpliesInitialized ==
    [][/\ completed' => initialized'
       /\ (~completed /\ completed') =>
              (initialized /\ pc = "loop" /\ caller \in {"MeasureNext", "Sweep"})
       /\ lastOp' = "Close" => (~completed' /\ ~initialized')]_vars

\* a MeasureNext has completed the sweep of an initialized session
C40_Witness ==
    /\ completed /\ initialized /\ pc = "idle"
    /\ lastOp = "MeasureNext" /\ lastRet = FRRET_COMPLETE /\ resultSet

====
